---- MODULE Spec2Model ----
(***************************************************************************)
(* State-machine model of the knowledge-guided agentic control loop of     *)
(* clawdbot: KnowledgeManager (knowledge_manager.py), LoopDetector and     *)
(* AgenticLoop (clawdbot_v12.py) and GuidedLearner (guided_learner.py).    *)
(*                                                                         *)
(* Conventions.  Confidences are held in hundredths (0.7 is 70).  A site   *)
(* string is a sequence of tokens, "www." being one token, so that         *)
(* str.replace("www.", "") is the removal of every such token.  A          *)
(* timestamp is the value of a clock that never runs backwards.  A Python  *)
(* dict is a function whose DOMAIN is the set of keys present.             *)
(***************************************************************************)
EXTENDS Integers, Sequences, FiniteSets, TLC

VARIABLES
    knowledge,       \* KnowledgeManager.knowledge: the in-memory store
    dirty,           \* KnowledgeManager._dirty
    file,            \* the durable knowledge file: [status, doc]
    clock,           \* datetime.now()
    ops,             \* number of store operations applied so far
    last,            \* the most recent call: its name and arguments
    write_failed,    \* has a write of the knowledge file failed so far?
    action_history,  \* LoopDetector.action_history
    pc,              \* AgenticLoop.run: where the run is, or how it ended
    run_site,        \* run: site inferred from the goal (<<>> is the empty string)
    run_task,        \* run: task inferred from the goal
    step,            \* run: iterations of the for loop completed
    history,         \* run: history, one entry per recorded action
    response,        \* the value decide_next_action got from the oracle last
    oracle_calls,    \* oracle calls made by the run
    tool_execs,      \* Tool.execute calls made by the run
    switches,        \* times the outcome of an iteration differed from the one before
    at_start,        \* the store as it was when the run started
    settled,         \* run: settle delays (time.sleep(1)) slept after tool executions
    warned,          \* run: did the latest oracle call carry a loop warning?
    cdp,             \* BrowserCDP: ws, _connected, _msg_id, page_url, and its sockets
    wire,            \* _send_cdp: the command in flight and what the socket delivers
    tool_call,       \* the most recent call of a browser tool and its result
    learner,         \* GuidedLearner.learn_task: where the session is, its steps, its result
    agents,          \* the agent files of AGENTS_DIR, by agent name
    execution        \* GuidedLearner.execute_agent: the latest call and its result

storeVars == <<knowledge, dirty, file, clock, ops, last, write_failed>>
loopVars == <<pc, run_site, run_task, step, history, response, oracle_calls, tool_execs,
              switches, at_start, settled, warned>>

cdpVars == <<cdp, wire, tool_call>>

glVars == <<learner, agents, execution>>

vars == <<knowledge, dirty, file, clock, ops, last, write_failed, action_history,
          pc, run_site, run_task, step, history, response, oracle_calls, tool_execs,
          switches, at_start, settled, warned, cdp, wire, tool_call,
          learner, agents, execution>>

----------------------------------------------------------------------------
(* Bounds of the model *)

MaxOps == 8
MaxClock == 1
MaxFailureOps == 5
MaxPersistOps == 4
MaxSwitches == 1
MaxHistory == 6

(* Program constants, in hundredths *)

NEW_WORKFLOW_CONFIDENCE == 70
SUCCESS_DELTA == 5
FAILURE_DELTA == 10
MIN_CONFIDENCE == 10
MAX_CONFIDENCE == 100
NEW_FAILURE_CONFIDENCE == 80
REPEAT_FAILURE_DELTA == 10

----------------------------------------------------------------------------
(* Inputs *)

WWW == "www."

SiteInputs == { <<"instagram.com">>, <<WWW, "instagram.com">>, <<"twitter.com">> }

Tasks == { "send_dm" }

StepA == [action |-> "click", target |-> "Messages"]
StepB == [action |-> "type", target |-> "hello"]

StepLists == { <<>>, <<StepA>>, <<StepA, StepB>> }

Approaches == { <<"click", "Send">>, <<"press", "Enter">> }

Min(a, b) == IF a <= b THEN a ELSE b
Max(a, b) == IF a >= b THEN a ELSE b

\* the values datetime.now() can return at the next call
Now == { t \in {clock, clock + 1} : t <= MaxClock }

----------------------------------------------------------------------------
(* KnowledgeManager: pure parts *)

\* site.replace("www.", "")
StripWww(site) == SelectSeq(site, LAMBDA tok : tok # WWW)

EmptyDict == [k \in {} |-> {}]

\* d[k] = v on a dict
Put(d, k, v) == [x \in (DOMAIN d) \cup {k} |-> IF x = k THEN v ELSE d[x]]

_get_default_knowledge(t) ==
    [ version          |-> "1.0",
      last_updated     |-> t,
      created_at       |-> t,
      browser          |-> "Comet",
      sites            |-> EmptyDict,
      contacts         |-> EmptyDict,
      learned_failures |-> <<>>,
      apps             |-> EmptyDict ]

\* sites.setdefault(site, {"workflows": {}}) and site_data.setdefault("workflows", {})
SetDefaultSite(sites, site) ==
    IF site \in DOMAIN sites THEN sites
    ELSE Put(sites, site, [workflows |-> EmptyDict])

\* variant: an existing workflow takes the step list of the new run
record_success_replace(k, site0, task, steps, t) ==
    LET site  == StripWww(site0)
        sites == SetDefaultSite(k.sites, site)
        wfs   == sites[site].workflows
        wf    == IF task \in DOMAIN wfs
                 THEN [wfs[task] EXCEPT
                          !.confidence    = Min(MAX_CONFIDENCE, @ + SUCCESS_DELTA),
                          !.success_count = @ + 1,
                          !.last_success  = t,
                          !.steps         = steps]
                 ELSE [ confidence    |-> NEW_WORKFLOW_CONFIDENCE,
                        learned_from  |-> "success",
                        success_count |-> 1,
                        fail_count    |-> 0,
                        last_success  |-> t,
                        steps         |-> steps ]
    IN  [k EXCEPT !.sites = Put(sites, site,
                    [sites[site] EXCEPT !.workflows = Put(wfs, task, wf)])]

\* variant: a repeated success raises the confidence without being counted
record_success_uncounted(k, site0, task, steps, t) ==
    LET site  == StripWww(site0)
        sites == SetDefaultSite(k.sites, site)
        wfs   == sites[site].workflows
        wf    == IF task \in DOMAIN wfs
                 THEN [wfs[task] EXCEPT
                          !.confidence    = Min(MAX_CONFIDENCE, @ + SUCCESS_DELTA),
                          !.last_success  = t]
                 ELSE [ confidence    |-> NEW_WORKFLOW_CONFIDENCE,
                        learned_from  |-> "success",
                        success_count |-> 1,
                        fail_count    |-> 0,
                        last_success  |-> t,
                        steps         |-> steps ]
    IN  [k EXCEPT !.sites = Put(sites, site,
                    [sites[site] EXCEPT !.workflows = Put(wfs, task, wf)])]

record_success(k, site0, task, steps, t) ==
    LET site  == StripWww(site0)
        sites == SetDefaultSite(k.sites, site)
        wfs   == sites[site].workflows
        wf    == IF task \in DOMAIN wfs
                 THEN [wfs[task] EXCEPT
                          !.confidence    = Min(MAX_CONFIDENCE, @ + SUCCESS_DELTA),
                          !.success_count = @ + 1,
                          !.last_success  = t]
                 ELSE [ confidence    |-> NEW_WORKFLOW_CONFIDENCE,
                        learned_from  |-> "success",
                        success_count |-> 1,
                        fail_count    |-> 0,
                        last_success  |-> t,
                        steps         |-> steps ]
    IN  [k EXCEPT !.sites = Put(sites, site,
                    [sites[site] EXCEPT !.workflows = Put(wfs, task, wf)])]

\* does record_workflow_failure find a workflow to degrade?
HasWorkflow(k, site, task) ==
    /\ site \in DOMAIN k.sites
    /\ task \in DOMAIN k.sites[site].workflows

\* variant: a failed workflow loses its steps
record_workflow_failure_forget(k, site0, task) ==
    LET site == StripWww(site0)
    IN  IF HasWorkflow(k, site, task)
        THEN [k EXCEPT !.sites[site].workflows[task] =
                 [@ EXCEPT !.confidence = Max(MIN_CONFIDENCE, @ - FAILURE_DELTA),
                           !.fail_count = @ + 1,
                           !.steps = <<>>]]
        ELSE k

\* variant: the failure is not recorded
record_workflow_failure_skip(k, site0, task) == k

\* variant: the confidence is lowered without the floor
record_workflow_failure_nofloor(k, site0, task) ==
    LET site == StripWww(site0)
    IN  IF HasWorkflow(k, site, task)
        THEN [k EXCEPT !.sites[site].workflows[task] =
                 [@ EXCEPT !.confidence = @ - FAILURE_DELTA,
                           !.fail_count = @ + 1]]
        ELSE k

record_workflow_failure(k, site0, task) ==
    LET site == StripWww(site0)
    IN  IF HasWorkflow(k, site, task)
        THEN [k EXCEPT !.sites[site].workflows[task] =
                 [@ EXCEPT !.confidence = Max(MIN_CONFIDENCE, @ - FAILURE_DELTA),
                           !.fail_count = @ + 1]]
        ELSE k

\* index of the first failure record with this (site, task, wrong_approach); 0 if none
FindFailure(failures, site, task, wrong_approach) ==
    LET hits == { i \in 1..Len(failures) :
                    /\ failures[i].site = site
                    /\ failures[i].task = task
                    /\ failures[i].wrong_approach = wrong_approach }
    IN  IF hits = {} THEN 0 ELSE CHOOSE i \in hits : \A j \in hits : i <= j

NewFailure(site, task, wrong_approach, why_failed, correct_approach, t) ==
    [ site             |-> site,
      task             |-> task,
      wrong_approach   |-> wrong_approach,
      why_failed       |-> why_failed,
      correct_approach |-> correct_approach,
      learned_at       |-> t,
      confidence       |-> NEW_FAILURE_CONFIDENCE,
      last_seen        |-> <<>> ]

\* variant: every observation appends a record
record_failure_append(k, site0, task, wrong_approach, why_failed, correct_approach, t) ==
    [k EXCEPT !.learned_failures =
        Append(@, NewFailure(StripWww(site0), task, wrong_approach,
                             why_failed, correct_approach, t))]

record_failure(k, site0, task, wrong_approach, why_failed, correct_approach, t) ==
    LET site == StripWww(site0)
        i    == FindFailure(k.learned_failures, site, task, wrong_approach)
    IN  IF i # 0
        THEN [k EXCEPT !.learned_failures[i] =
                 [@ EXCEPT !.confidence = Min(MAX_CONFIDENCE, @ + REPEAT_FAILURE_DELTA),
                           !.last_seen  = <<t>>]]
        ELSE [k EXCEPT !.learned_failures =
                 Append(@, NewFailure(site, task, wrong_approach,
                                      why_failed, correct_approach, t))]

----------------------------------------------------------------------------
(* Contacts *)

Names == { "Bob", "bob", "Al" }

\* str.lower() on the names of the model
Lower(name) == IF name \in {"Bob", "bob", "BOB"} THEN "bob" ELSE "al"

Platforms == { "instagram", "imessage" }
Identifiers == { "@bob", "@bobby" }

\* the key update_contact finds for a name, {} if none
ExistingKeys(contacts, name) == { key \in DOMAIN contacts : Lower(key) = Lower(name) }

\* variant: the platform map of an existing contact is replaced, not merged
update_contact_replace(k, name, platform, value) ==
    LET found == ExistingKeys(k.contacts, name)
    IN  IF found # {}
        THEN LET existing_key == CHOOSE key \in found : TRUE
             IN  [k EXCEPT !.contacts[existing_key] = Put(EmptyDict, platform, value)]
        ELSE [k EXCEPT !.contacts = Put(@, Lower(name), Put(EmptyDict, platform, value))]

update_contact(k, name, platform, value) ==
    LET contacts == k.contacts
        found    == ExistingKeys(contacts, name)
    IN  IF found # {}
        THEN LET existing_key == CHOOSE key \in found : TRUE
             IN  [k EXCEPT !.contacts[existing_key] = Put(@, platform, value)]
        ELSE [k EXCEPT !.contacts = Put(@, Lower(name), Put(EmptyDict, platform, value))]

\* {"name": contact_name, **contact_info} of the first key that matches, None is <<>>
get_contact(k, name) ==
    LET found == ExistingKeys(k.contacts, name)
    IN  IF found = {}
        THEN <<>>
        ELSE LET contact_name == CHOOSE key \in found : TRUE
                 contact_info == k.contacts[contact_name]
             IN  << [ x \in {"name"} \cup DOMAIN contact_info |->
                        IF x \in DOMAIN contact_info THEN contact_info[x]
                                                     ELSE contact_name ] >>

----------------------------------------------------------------------------
(* Durable storage: json.dump and json.load *)

TopLevelKeys ==
    << "version", "last_updated", "created_at", "browser",
       "sites", "contacts", "learned_failures", "apps" >>

\* variant: the failure records are left out of the document
DumpWithoutFailures(k) ==
    [ i \in 1..Len(TopLevelKeys) |->
        LET key == TopLevelKeys[i]
        IN  << key,
               CASE key = "version"          -> << "str", k.version >>
                 [] key = "last_updated"     -> << "time", k.last_updated >>
                 [] key = "created_at"       -> << "time", k.created_at >>
                 [] key = "browser"          -> << "str", k.browser >>
                 [] key = "sites"            -> << "object", k.sites >>
                 [] key = "contacts"         -> << "object", k.contacts >>
                 [] key = "learned_failures" -> << "array", <<>> >>
                 [] key = "apps"             -> << "object", k.apps >> >> ]

\* json.dump(data): the document is the list of the members of the top-level object
Dump(k) ==
    [ i \in 1..Len(TopLevelKeys) |->
        LET key == TopLevelKeys[i]
        IN  << key,
               CASE key = "version"          -> << "str", k.version >>
                 [] key = "last_updated"     -> << "time", k.last_updated >>
                 [] key = "created_at"       -> << "time", k.created_at >>
                 [] key = "browser"          -> << "str", k.browser >>
                 [] key = "sites"            -> << "object", k.sites >>
                 [] key = "contacts"         -> << "object", k.contacts >>
                 [] key = "learned_failures" -> << "array", k.learned_failures >>
                 [] key = "apps"             -> << "object", k.apps >> >> ]

\* the value json.load gives the key, that of its last member in the document;
\* a key the document lacks reads as the default of knowledge.get(key, default)
Member(doc, key, default) ==
    LET at == { i \in 1..Len(doc) : doc[i][1] = key }
    IN  IF at = {} THEN default
        ELSE doc[CHOOSE x \in at : \A y \in at : y <= x][2][2]


Parse(doc) ==
    [ version          |-> Member(doc, "version", ""),
      last_updated     |-> Member(doc, "last_updated", 0),
      created_at       |-> Member(doc, "created_at", 0),
      browser          |-> Member(doc, "browser", ""),
      sites            |-> Member(doc, "sites", EmptyDict),
      contacts         |-> Member(doc, "contacts", EmptyDict),
      learned_failures |-> Member(doc, "learned_failures", <<>>),
      apps             |-> Member(doc, "apps", EmptyDict) ]

NoFile == [status |-> "absent", doc |-> <<>>]

\* outcomes of open(path, 'w') followed by json.dump
WriteOutcomes == { "written", "open_failed", "write_failed" }

\* _save_knowledge: the file after the write attempt
Written(f, data, outcome) ==
    CASE outcome = "written"      -> [status |-> "valid", doc |-> Dump(data)]
      [] outcome = "open_failed"  -> f
      [] outcome = "write_failed" -> [status |-> "corrupt", doc |-> <<>>]

\* _save_knowledge: data["last_updated"] is set before the write is attempted
Stamp(data, t) == [data EXCEPT !.last_updated = t]

\* _load: what the constructor reads, and what it leaves in the file
_load(f, t, outcome) ==
    CASE f.status = "valid"   -> [data |-> Parse(f.doc), file |-> f]
      [] f.status = "corrupt" -> [data |-> _get_default_knowledge(t), file |-> f]
      [] f.status = "absent"  -> [data |-> _get_default_knowledge(t),
                                  file |-> Written(f, _get_default_knowledge(t), outcome)]

----------------------------------------------------------------------------
(* LoopDetector *)

LOOP_THRESHOLD == 3
RECENT_WINDOW == 5

\* str(success) in the f-string of add_action
Str(success) == IF success THEN "True" ELSE "False"

\* f"{tool}:{json.dumps(params, sort_keys=True)}:{success}"
Signature(tool, params, success) == << tool, params, Str(success) >>

\* sig.endswith(":False")
EndsWithFalse(sig) == sig[Len(sig)] = "False"

\* h[-n:]
LastN(h, n) == IF Len(h) <= n THEN h ELSE SubSeq(h, Len(h) - n + 1, Len(h))

Range(h) == { h[i] : i \in 1..Len(h) }

\* variant: only the check of the last LOOP_THRESHOLD signatures
is_looping_strict(h) ==
    IF Len(h) < LOOP_THRESHOLD THEN FALSE
    ELSE LET recent == LastN(h, LOOP_THRESHOLD)
         IN  Cardinality(Range(recent)) = 1 /\ EndsWithFalse(recent[1])

\* variant: the threshold taken one too low
is_looping_early(h) ==
    IF Len(h) < LOOP_THRESHOLD - 1 THEN FALSE
    ELSE LET recent == LastN(h, LOOP_THRESHOLD - 1)
         IN  Cardinality(Range(recent)) = 1 /\ EndsWithFalse(recent[1])

\* variant: a repetition counts whether or not the actions failed
is_looping_any(h) ==
    IF Len(h) < LOOP_THRESHOLD THEN FALSE
    ELSE Cardinality(Range(LastN(h, LOOP_THRESHOLD))) = 1

is_looping(h) ==
    IF Len(h) < LOOP_THRESHOLD THEN FALSE
    ELSE LET recent   == LastN(h, LOOP_THRESHOLD)
             recent_5 == IF Len(h) >= RECENT_WINDOW THEN LastN(h, RECENT_WINDOW) ELSE <<>>
         IN  \/ Cardinality(Range(recent)) = 1 /\ EndsWithFalse(recent[1])
             \/ /\ recent_5 # <<>>
                /\ Cardinality(Range(recent_5)) <= 2
                /\ \A i \in 1..Len(recent_5) : EndsWithFalse(recent_5[i])

\* variant: reset keeps what was recorded
reset_keep(h) == h

\* LoopDetector.reset
reset(h) == <<>>

\* variant: only successful actions are remembered
add_action_successful(h, tool, params, success) ==
    IF success THEN Append(h, Signature(tool, params, success)) ELSE h

add_action(h, tool, params, success) == Append(h, Signature(tool, params, success))

\* site_data.get("alt_domains", [])
AltDomains(site_data) ==
    IF "alt_domains" \in DOMAIN site_data THEN site_data.alt_domains ELSE <<>>

\* variant: the site is looked up as it was given
get_site_workflow_raw(k, site0, task) ==
    IF site0 \in DOMAIN k.sites /\ task \in DOMAIN k.sites[site0].workflows
    THEN << k.sites[site0].workflows[task] >>
    ELSE <<>>

\* None is <<>>, a workflow w is <<w>>; the stores considered hold at most one
\* site that lists a given alias
get_site_workflow(k, site0, task) ==
    LET site    == StripWww(site0)
        aliased == { key \in DOMAIN k.sites :
                       /\ \E i \in 1..Len(AltDomains(k.sites[key])) :
                             AltDomains(k.sites[key])[i] = site
                       /\ task \in DOMAIN k.sites[key].workflows }
    IN  IF site \in DOMAIN k.sites /\ task \in DOMAIN k.sites[site].workflows
        THEN << k.sites[site].workflows[task] >>
        ELSE IF aliased # {}
        THEN << k.sites[CHOOSE key \in aliased : TRUE].workflows[task] >>
        ELSE <<>>

----------------------------------------------------------------------------
(* GuidedLearner: the state before any call *)

\* None is <<>>
NoSession ==
    [ pc |-> "idle", task |-> "", site |-> <<>>, steps |-> <<>>, step_num |-> 0,
      user_input |-> <<>>, calls |-> <<>>, ret |-> <<>> ]

NoExecution ==
    [ name |-> <<>>, params |-> EmptyDict, browser |-> FALSE, connected |-> FALSE,
      outcomes |-> <<>>, agent |-> EmptyDict, ret |-> EmptyDict, runs |-> 0 ]

InitLearner ==
    /\ learner = NoSession
    /\ agents = EmptyDict
    /\ execution = NoExecution

----------------------------------------------------------------------------
(* Calls on the knowledge store *)

NoCall == [op |-> "none", site |-> <<>>, task |-> "", arg |-> <<>>, hit |-> FALSE]

Call(op, site, task, arg, hit) ==
    [op |-> op, site |-> site, task |-> task, arg |-> arg, hit |-> hit]

RecordSuccess(site, task, steps) ==
    /\ \E t \in Now :
         /\ knowledge' = record_success(knowledge, site, task, steps, t)
         /\ clock' = t
    /\ dirty' = TRUE
    /\ ops' = ops + 1
    /\ last' = Call("record_success", StripWww(site), task, steps,
                    HasWorkflow(knowledge, StripWww(site), task))
    /\ UNCHANGED <<file, write_failed, action_history, loopVars, cdpVars, glVars>>

RecordWorkflowFailure(site, task) ==
    /\ knowledge' = record_workflow_failure(knowledge, site, task)
    /\ dirty' = (dirty \/ HasWorkflow(knowledge, StripWww(site), task))
    /\ ops' = ops + 1
    /\ last' = Call("record_workflow_failure", StripWww(site), task, <<>>,
                    HasWorkflow(knowledge, StripWww(site), task))
    /\ UNCHANGED <<file, clock, write_failed, action_history, loopVars, cdpVars, glVars>>

RecordFailure(site, task, wrong_approach) ==
    /\ \E t \in Now :
         /\ knowledge' = record_failure(knowledge, site, task, wrong_approach, "", "", t)
         /\ clock' = t
    /\ dirty' = TRUE
    /\ ops' = ops + 1
    /\ last' = Call("record_failure", StripWww(site), task, wrong_approach,
                    FindFailure(knowledge.learned_failures, StripWww(site),
                                task, wrong_approach) # 0)
    /\ UNCHANGED <<file, write_failed, action_history, loopVars, cdpVars, glVars>>

UpdateContact(name, platform, value) ==
    /\ knowledge' = update_contact(knowledge, name, platform, value)
    /\ dirty' = TRUE
    /\ ops' = ops + 1
    /\ last' = Call("update_contact", <<>>, "", <<name, platform, value>>,
                    ExistingKeys(knowledge.contacts, name) # {})
    /\ UNCHANGED <<file, clock, write_failed, action_history, loopVars, cdpVars, glVars>>

GetContact(name) ==
    /\ ops' = ops + 1
    /\ last' = Call("get_contact", <<>>, "", <<name, get_contact(knowledge, name)>>,
                    get_contact(knowledge, name) # <<>>)
    /\ UNCHANGED <<knowledge, dirty, file, clock, write_failed, action_history, loopVars, cdpVars, glVars>>

GetSiteWorkflow(site, task) ==
    /\ ops' = ops + 1
    /\ last' = Call("get_site_workflow", site, task,
                    get_site_workflow(knowledge, site, task),
                    get_site_workflow(knowledge, site, task) # <<>>)
    /\ UNCHANGED <<knowledge, dirty, file, clock, write_failed, action_history, loopVars, cdpVars, glVars>>

\* save(): writes only when dirty, and clears the flag whatever the write did
Save(outcome) ==
    /\ IF dirty
       THEN \E t \in Now :
               /\ knowledge' = Stamp(knowledge, t)
               /\ file' = Written(file, Stamp(knowledge, t), outcome)
               /\ clock' = t
               /\ write_failed' = (write_failed \/ outcome # "written")
       ELSE UNCHANGED <<knowledge, file, clock, write_failed>>
    /\ dirty' = FALSE
    /\ ops' = ops + 1
    /\ last' = Call("save", <<>>, "", <<outcome>>, dirty)
    /\ UNCHANGED <<action_history, loopVars, cdpVars, glVars>>

ForceSave(outcome) ==
    /\ \E t \in Now :
         /\ knowledge' = Stamp(knowledge, t)
         /\ file' = Written(file, Stamp(knowledge, t), outcome)
         /\ clock' = t
    /\ write_failed' = (write_failed \/ outcome # "written")
    /\ dirty' = FALSE
    /\ ops' = ops + 1
    /\ last' = Call("force_save", <<>>, "", <<outcome>>, TRUE)
    /\ UNCHANGED <<action_history, loopVars, cdpVars, glVars>>

\* a new KnowledgeManager(): the store is read again from the file
Load(outcome) ==
    /\ \E t \in Now :
         /\ knowledge' = _load(file, t, outcome).data
         /\ file' = _load(file, t, outcome).file
         /\ clock' = t
    /\ write_failed' = (write_failed \/ (file.status = "absent" /\ outcome # "written"))
    /\ dirty' = FALSE
    /\ ops' = ops + 1
    /\ last' = Call("load", <<>>, "", <<outcome>>, file.status = "valid")
    /\ UNCHANGED <<action_history, loopVars, cdpVars, glVars>>

\* the store after KnowledgeManager() found no knowledge file and wrote the default one
InitStore(outcome) ==
    /\ clock = 0
    /\ knowledge = _load(NoFile, 0, outcome).data
    /\ file = _load(NoFile, 0, outcome).file
    /\ write_failed = (outcome # "written")
    /\ dirty = FALSE
    /\ ops = 0
    /\ last = NoCall

\* params of an action: a dict of at most one item ({} has key ""), or, with
\* mapping FALSE, a JSON value that is no object
NoParams == [mapping |-> TRUE, key |-> "", value |-> ""]

NoResponse == [kind |-> "none", done |-> FALSE, give_up |-> FALSE, tool |-> "None",
               params |-> NoParams]

\* no run of AgenticLoop has been started
\* a URL: scheme, host (a sequence of tokens, "www." being one) and path
NoUrl == [scheme |-> "", host |-> <<>>, path |-> ""]

NoReturn == [kind |-> "none", id |-> 0]

\* a tool call: the tool, its url argument, the commands it sent, whether one of them
\* hit a transport error, and the result (success, error, scrolls)
NoToolCall == [tool |-> "none", url |-> NoUrl, sent |-> <<>>, transport |-> FALSE,
               reused |-> FALSE, success |-> FALSE, error |-> "none", scrolls |-> 0]

Url(scheme, host, path) == [scheme |-> scheme, host |-> host, path |-> path]

\* the page connect() finds when it is given no domain
FirstPage == Url("https://", <<"example.com">>, "")

\* BrowserCDP.__init__: no socket (ws is None, written 0), nothing sent yet
InitCdp ==
    /\ cdp = [ws |-> 0, connected |-> FALSE, msg_id |-> 0, page_url |-> NoUrl,
              created |-> 0, open |-> {}, target_url |-> NoUrl]
    /\ wire = [pc |-> "idle", sent_id |-> 0, used |-> <<>>, late |-> {},
               discarded |-> <<>>, elapsed |-> 0, ret |-> NoReturn]
    /\ tool_call = NoToolCall

InitLoop ==
    /\ pc = "idle"
    /\ run_site = <<>>
    /\ run_task = ""
    /\ step = 0
    /\ history = <<>>
    /\ response = NoResponse
    /\ oracle_calls = 0
    /\ tool_execs = 0
    /\ switches = 0
    /\ at_start = knowledge
    /\ settled = 0
    /\ warned = FALSE

Init ==
    /\ InitStore("written")
    /\ action_history = <<>>
    /\ InitLoop
    /\ InitCdp
    /\ InitLearner

----------------------------------------------------------------------------
(* Spec: workflows under record_success and record_workflow_failure *)

Next ==
    \/ \E site \in SiteInputs, task \in Tasks, steps \in StepLists :
         ops < MaxOps /\ RecordSuccess(site, task, steps)
    \/ \E site \in SiteInputs, task \in Tasks :
         ops < MaxOps /\ RecordWorkflowFailure(site, task)

Spec == Init /\ [][Next]_vars

(* SpecFailures: failure records under record_failure *)

FailureTasks == Tasks

NextFailures ==
    \E site \in SiteInputs, task \in FailureTasks, wrong_approach \in Approaches :
        ops < MaxFailureOps /\ RecordFailure(site, task, wrong_approach)

SpecFailures == Init /\ [][NextFailures]_vars

(* SpecLookup: get_site_workflow on stores built by record_success *)

MaxLookupOps == 4

\* "mywww.instagram.com" and "myinstagram.com" are two different hosts
InnerWww == <<"my", WWW, "instagram.com">>

LookupRecordSites == SiteInputs \cup { <<"my", "instagram.com">> }
LookupSites == SiteInputs \cup { <<"x.com">>, InnerWww }
LookupTasks == Tasks \cup { "follow_user" }

\* a store loaded from a file in which twitter.com lists x.com as alt_domain
AliasedStore ==
    [ _get_default_knowledge(0) EXCEPT !.sites =
        Put(EmptyDict, <<"twitter.com">>,
            [ workflows   |-> Put(EmptyDict, "send_dm",
                                  [ steps         |-> <<StepA>>,
                                    confidence    |-> NEW_WORKFLOW_CONFIDENCE,
                                    learned_from  |-> "success",
                                    success_count |-> 1,
                                    fail_count    |-> 0,
                                    last_success  |-> 0 ]),
              alt_domains |-> << <<"x.com">> >> ]) ]

InitLookup ==
    /\ clock = 0
    /\ knowledge \in { _get_default_knowledge(0), AliasedStore }
    /\ file = [status |-> "valid", doc |-> Dump(knowledge)]
    /\ write_failed = FALSE
    /\ dirty = FALSE
    /\ ops = 0
    /\ last = NoCall
    /\ action_history = <<>>
    /\ InitLoop
    /\ InitCdp
    /\ InitLearner

NextLookup ==
    \/ \E site \in LookupRecordSites, task \in Tasks, steps \in StepLists :
         ops < MaxLookupOps /\ RecordSuccess(site, task, steps)
    \/ \E site \in LookupSites, task \in LookupTasks :
         ops < MaxLookupOps /\ GetSiteWorkflow(site, task)

SpecLookup == InitLookup /\ [][NextLookup]_vars

(* SpecAlias: the workflows of a site that is also reached through an alias *)

MaxAliasOps == 4

AliasSites == { <<"twitter.com">>, <<"x.com">>, <<WWW, "x.com">> }

InitAlias ==
    /\ InitLookup
    /\ knowledge = AliasedStore

NextAlias ==
    \/ \E site \in AliasSites, task \in Tasks, steps \in StepLists :
         ops < MaxAliasOps /\ RecordSuccess(site, task, steps)
    \/ \E site \in AliasSites, task \in Tasks :
         ops < MaxAliasOps /\ RecordWorkflowFailure(site, task)
    \/ \E site \in AliasSites, task \in Tasks :
         ops < MaxAliasOps /\ GetSiteWorkflow(site, task)

SpecAlias == InitAlias /\ [][NextAlias]_vars

(* SpecContacts: update_contact and get_contact on a store that starts empty *)

MaxContactOps == 4

ContactLookups == Names \cup { "BOB", "AL" }

NextContacts ==
    \/ \E name \in Names, platform \in Platforms, value \in Identifiers :
         ops < MaxContactOps /\ UpdateContact(name, platform, value)
    \/ \E name \in ContactLookups :
         ops < MaxContactOps /\ GetContact(name)

SpecContacts == Init /\ [][NextContacts]_vars

(* SpecPersist: the store, its file and a restart of the process *)

PersistSites == { <<WWW, "instagram.com">> }
PersistSteps == { <<>>, <<StepA, StepB>> }
PersistApproaches == { <<"click", "Send">> }
PersistNames == { "Bob", "bob" }
PersistPlatforms == { "instagram" }

InitPersist ==
    /\ \E outcome \in WriteOutcomes : InitStore(outcome)
    /\ action_history = <<>>
    /\ InitLoop
    /\ InitCdp
    /\ InitLearner

NextPersist ==
    \/ \E site \in PersistSites, task \in Tasks, steps \in PersistSteps :
         ops < MaxPersistOps /\ RecordSuccess(site, task, steps)
    \/ \E site \in PersistSites, task \in Tasks :
         ops < MaxPersistOps /\ RecordWorkflowFailure(site, task)
    \/ \E site \in PersistSites, task \in Tasks, wrong_approach \in PersistApproaches :
         ops < MaxPersistOps /\ RecordFailure(site, task, wrong_approach)
    \/ \E name \in PersistNames, platform \in PersistPlatforms, value \in Identifiers :
         ops < MaxPersistOps /\ UpdateContact(name, platform, value)
    \/ \E outcome \in WriteOutcomes : ops <= MaxPersistOps /\ Save(outcome)
    \/ \E outcome \in WriteOutcomes : ops <= MaxPersistOps /\ ForceSave(outcome)
    \/ \E outcome \in WriteOutcomes : ops <= MaxPersistOps + 1 /\ Load(outcome)

SpecPersist == InitPersist /\ [][NextPersist]_vars

(* SpecLoopDetector: reset and add_action *)

DetectorActions ==
    { <<"click", [mapping |-> TRUE, key |-> "target", value |-> "Send"]>>,
      <<"press", [mapping |-> TRUE, key |-> "key", value |-> "Enter"]>> }

Reset ==
    /\ action_history' = <<>>
    /\ UNCHANGED <<storeVars, loopVars, cdpVars, glVars>>

AddAction(tool, params, success) ==
    /\ Len(action_history) < MaxHistory
    /\ action_history' = add_action(action_history, tool, params, success)
    /\ UNCHANGED <<storeVars, loopVars, cdpVars, glVars>>

NextLoopDetector ==
    \/ Reset
    \/ \E a \in DetectorActions, success \in BOOLEAN : AddAction(a[1], a[2], success)

SpecLoopDetector == Init /\ [][NextLoopDetector]_vars

----------------------------------------------------------------------------
(* AgenticLoop *)

MAX_STEPS == 15

\* a goal is the set of the keywords its lower-cased text contains
GoalDm == { "send", "dm", "instagram", "insta" }
GoalOther == { "open", "settings" }
Goals == { GoalDm, GoalOther }

extract_site_from_goal(goal) ==
    IF goal \cap {"instagram", "insta", "ig"} # {} THEN <<"instagram.com">>
    ELSE IF goal \cap {"twitter", "x.com", "tweet"} # {} THEN <<"twitter.com">>
    ELSE IF "youtube" \in goal THEN <<"youtube.com">>
    ELSE IF "facebook" \in goal THEN <<"facebook.com">>
    ELSE IF "google" \in goal THEN <<"google.com">>
    ELSE <<>>

extract_task_from_goal(goal) ==
    IF /\ goal \cap {"dm", "message", "send", "text"} # {}
       /\ goal \cap {"instagram", "twitter", "x.com", "on ig"} # {}
    THEN "send_dm"
    ELSE IF "follow" \in goal THEN "follow_user"
    ELSE IF "search" \in goal THEN "search"
    ELSE IF "like" \in goal THEN "like_post"
    ELSE "unknown"

\* AgenticToolRegistry._register_tools
ToolNames == { "navigate", "click", "click_nth", "type", "press", "wait",
               "scroll", "scroll_find" }

Object(done, give_up, tool, params) ==
    [kind |-> "object", done |-> done, give_up |-> give_up, tool |-> tool, params |-> params]

UrlParams == [mapping |-> TRUE, key |-> "url", value |-> "https://instagram.com"]

RDone    == Object(TRUE, FALSE, "None", NoParams)
RGiveUp  == Object(FALSE, TRUE, "None", NoParams)
RAction  == Object(FALSE, FALSE, "navigate", UrlParams)
RParams  == Object(FALSE, FALSE, "navigate", [mapping |-> FALSE, key |-> "", value |-> "url"])
RUnknown == Object(FALSE, FALSE, "fly", NoParams)
RUnknownTo == Object(FALSE, FALSE, "fly", [mapping |-> TRUE, key |-> "to", value |-> "moon"])
REmpty   == Object(FALSE, FALSE, "None", NoParams)
RArray   == [NoResponse EXCEPT !.kind = "array"]
RText    == [NoResponse EXCEPT !.kind = "text"]

\* decide_next_action: text that is no JSON becomes a give_up; any JSON value is
\* returned as it was parsed
decide_next_action(r) ==
    IF r.kind = "text" THEN Object(FALSE, TRUE, "None", NoParams) ELSE r

\* results of BrowserCDP.navigate: success, an error text, or the error object of
\* the protocol's error response
ToolOutcomes == { "ok", "error_text", "error_object" }

ToolResult(outcome) ==
    [success |-> (outcome = "ok"), error |-> IF outcome = "ok" THEN "none" ELSE outcome]

\* sig.rsplit(":", 2)[0]: what precedes the last two colons of the signature
RSplitHead(sig) ==
    IF sig[2].key = "" THEN << sig[1] >>
    ELSE IF sig[2].key = "url" THEN << sig[1], sig[2].key, "https" >>
    ELSE << sig[1], sig[2].key >>

get_last_failed_action(h) ==
    LET failed == { i \in 1..Len(h) : EndsWithFalse(h[i]) }
    IN  IF failed = {} THEN <<>>
        ELSE RSplitHead(h[CHOOSE i \in failed : \A j \in failed : j <= i])

\* variant: every action of the history
successful_steps_all(h) == [i \in 1..Len(h) |-> h[i].action]

\* [h["action"] for h in history if h["result"].get("success")]
successful_steps(h) ==
    LET ok == SelectSeq(h, LAMBDA e : e.result.success)
    IN  [i \in 1..Len(ok) |-> ok[i].action]

\* save(): the store, the file and whether a write failed
save(k, d, f, t, outcome) ==
    IF d THEN [knowledge |-> Stamp(k, t),
               file      |-> Written(f, Stamp(k, t), outcome),
               failed    |-> outcome # "written"]
    ELSE [knowledge |-> k, file |-> f, failed |-> FALSE]

\* dict.get(key, default)
Get(d, key, default) == IF key \in DOMAIN d THEN d[key] ELSE default

\* str.upper() on the action names of the model
Upper(a) ==
    IF a = "click" THEN "CLICK"
    ELSE IF a = "type" THEN "TYPE"
    ELSE IF a = "navigate" THEN "NAVIGATE"
    ELSE a

\* decide_next_action: the lines of workflow_text, "{i}. {ACTION}: {target} ({note})"
workflow_text(workflow) ==
    [ i \in 1..Len(workflow.steps) |->
        [ number |-> i,
          action |-> Upper(Get(workflow.steps[i], "action", "?")),
          target |-> Get(workflow.steps[i], "target",
                         Get(workflow.steps[i], "value",
                             Get(workflow.steps[i], "url", ""))),
          note   |-> Get(workflow.steps[i], "note", "") ] ]

\* get_prompt_knowledge: the label of the line of each step of the workflow
prompt_labels(workflow) ==
    [ i \in 1..Len(workflow.steps) |->
        LET action == Get(workflow.steps[i], "action", "?")
        IN  IF action = "click" THEN "CLICK"
            ELSE IF action = "type" THEN "TYPE in"
            ELSE IF action = "wait" THEN "WAIT"
            ELSE IF action = "press" THEN "PRESS"
            ELSE IF action = "navigate" THEN "GO TO"
            ELSE Upper(action) ]

\* SENSE: a detected loop is recorded as a failure of the site before the oracle is asked
Looping == is_looping(action_history)

Sensed ==
    IF Looping /\ run_site # <<>> /\ get_last_failed_action(action_history) # <<>>
    THEN record_failure(knowledge, run_site, run_task,
                        get_last_failed_action(action_history),
                        "Repeated failure in loop", "", clock)
    ELSE knowledge

SensedDirty ==
    dirty \/ (Looping /\ run_site # <<>> /\ get_last_failed_action(action_history) # <<>>)

\* variant: the warning is never synthesised
loop_warning_none(looping) == FALSE

\* loop_warning: TRUE is the warning text, FALSE the empty string
loop_warning(looping) == looping

\* variant: the loop continues without the settle delay
SettleSkipped(n) == n

\* time.sleep(1) at the end of an iteration that executed a tool
Settle(n) == n + 1

Learns == run_site # <<>> /\ run_task # ""

Entry(r, result) == [step |-> step + 1, action |-> r, result |-> result]

\* the bound on how often the outcome of an iteration changes
Switch(r, result) ==
    /\ history # <<>>
    /\ << history[Len(history)].action, history[Len(history)].result >> # << r, result >>

Allowed(r, result) == Switch(r, result) => switches < MaxSwitches

Counted(r, result) == IF Switch(r, result) THEN switches + 1 ELSE switches

StartRun(goal, connected) ==
    /\ pc = "idle"
    /\ run_site' = extract_site_from_goal(goal)
    /\ run_task' = extract_task_from_goal(goal)
    /\ history' = <<>>
    /\ action_history' = reset(action_history)
    /\ step' = 0
    /\ oracle_calls' = 0
    /\ tool_execs' = 0
    /\ switches' = 0
    /\ response' = NoResponse
    /\ at_start' = knowledge
    /\ pc' = IF connected THEN "RUNNING" ELSE "NOT_CONNECTED"
    /\ settled' = 0
    /\ warned' = FALSE
    /\ UNCHANGED <<storeVars, cdpVars, glVars>>

InLoop == pc = "RUNNING" /\ step < MAX_STEPS

\* the oracle answers done
Done(r, outcome) ==
    /\ InLoop
    /\ decide_next_action(r).kind = "object"
    /\ decide_next_action(r).done
    /\ response' = r
    /\ oracle_calls' = oracle_calls + 1
    /\ LET learned == IF Learns
                      THEN record_success(Sensed, run_site, run_task,
                                          successful_steps(history), clock)
                      ELSE Sensed
           saved   == save(learned, SensedDirty \/ Learns, file, clock, outcome)
       IN  IF Learns
           THEN /\ knowledge' = saved.knowledge
                /\ file' = saved.file
                /\ write_failed' = (write_failed \/ saved.failed)
                /\ dirty' = FALSE
           ELSE /\ knowledge' = Sensed
                /\ dirty' = SensedDirty
                /\ UNCHANGED <<file, write_failed>>
    /\ pc' = "DONE"
    /\ warned' = loop_warning(Looping)
    /\ UNCHANGED <<settled, cdpVars, glVars>>
    /\ UNCHANGED <<clock, ops, last, action_history, run_site, run_task, step, history,
                   tool_execs, switches, at_start>>

\* the oracle answers give_up, or its answer could not be parsed as JSON
GiveUp(r, outcome) ==
    /\ InLoop
    /\ decide_next_action(r).kind = "object"
    /\ ~decide_next_action(r).done
    /\ decide_next_action(r).give_up
    /\ response' = r
    /\ oracle_calls' = oracle_calls + 1
    /\ LET failed == record_workflow_failure(Sensed, run_site, run_task)
           saved  == save(failed, SensedDirty \/ HasWorkflow(Sensed, run_site, run_task),
                          file, clock, outcome)
       IN  IF Learns
           THEN /\ knowledge' = saved.knowledge
                /\ file' = saved.file
                /\ write_failed' = (write_failed \/ saved.failed)
                /\ dirty' = FALSE
           ELSE /\ knowledge' = Sensed
                /\ dirty' = SensedDirty
                /\ UNCHANGED <<file, write_failed>>
    /\ pc' = "GIVEN_UP"
    /\ warned' = loop_warning(Looping)
    /\ UNCHANGED <<settled, cdpVars, glVars>>
    /\ UNCHANGED <<clock, ops, last, action_history, run_site, run_task, step, history,
                   tool_execs, switches, at_start>>

\* the oracle answers with JSON that is no object: action.get raises AttributeError
NotAnObject(r) ==
    /\ InLoop
    /\ decide_next_action(r).kind = "array"
    /\ response' = r
    /\ oracle_calls' = oracle_calls + 1
    /\ knowledge' = Sensed
    /\ dirty' = SensedDirty
    /\ pc' = "CRASHED"
    /\ warned' = loop_warning(Looping)
    /\ UNCHANGED <<settled, cdpVars, glVars>>
    /\ UNCHANGED <<file, clock, ops, last, write_failed, action_history, run_site,
                   run_task, step, history, tool_execs, switches, at_start>>

\* the oracle names no tool of the registry (or no tool at all)
UnknownTool(r) ==
    /\ InLoop
    /\ decide_next_action(r).kind = "object"
    /\ ~decide_next_action(r).done
    /\ ~decide_next_action(r).give_up
    /\ r.tool \notin ToolNames
    /\ Allowed(r, [success |-> FALSE, error |-> "Unknown tool"])
    /\ response' = r
    /\ oracle_calls' = oracle_calls + 1
    /\ knowledge' = Sensed
    /\ dirty' = SensedDirty
    /\ history' = Append(history, Entry(r, [success |-> FALSE, error |-> "Unknown tool"]))
    /\ action_history' = add_action(action_history, r.tool, r.params, FALSE)
    /\ switches' = Counted(r, [success |-> FALSE, error |-> "Unknown tool"])
    /\ step' = step + 1
    /\ warned' = loop_warning(Looping)
    /\ UNCHANGED <<settled, cdpVars, glVars>>
    /\ UNCHANGED <<file, clock, ops, last, write_failed, pc, run_site, run_task,
                   tool_execs, at_start>>

\* the oracle names a tool with params that are no mapping: tool.execute(**params)
\* raises TypeError before the tool is entered
ParamsNotAMapping(r) ==
    /\ InLoop
    /\ decide_next_action(r).kind = "object"
    /\ ~decide_next_action(r).done
    /\ ~decide_next_action(r).give_up
    /\ r.tool \in ToolNames
    /\ ~r.params.mapping
    /\ response' = r
    /\ oracle_calls' = oracle_calls + 1
    /\ knowledge' = Sensed
    /\ dirty' = SensedDirty
    /\ pc' = "CRASHED"
    /\ warned' = loop_warning(Looping)
    /\ UNCHANGED <<settled, cdpVars, glVars>>
    /\ UNCHANGED <<file, clock, ops, last, write_failed, action_history, run_site,
                   run_task, step, history, tool_execs, switches, at_start>>

\* the oracle names a tool, which is executed and its result recorded; an error that
\* is no text makes result.get('error', '?')[:50] raise after the recording
ExecuteTool(r, outcome) ==
    /\ InLoop
    /\ decide_next_action(r).kind = "object"
    /\ ~decide_next_action(r).done
    /\ ~decide_next_action(r).give_up
    /\ r.tool \in ToolNames
    /\ r.params.mapping
    /\ outcome # "error_object" => Allowed(r, ToolResult(outcome))
    /\ response' = r
    /\ oracle_calls' = oracle_calls + 1
    /\ tool_execs' = tool_execs + 1
    /\ knowledge' = Sensed
    /\ dirty' = SensedDirty
    /\ history' = Append(history, Entry(r, ToolResult(outcome)))
    /\ action_history' = add_action(action_history, r.tool, r.params,
                                    ToolResult(outcome).success)
    /\ switches' = IF outcome = "error_object" THEN switches
                   ELSE Counted(r, ToolResult(outcome))
    /\ IF outcome = "error_object"
       THEN pc' = "CRASHED" /\ step' = step
       ELSE pc' = pc /\ step' = step + 1
    /\ warned' = loop_warning(Looping)
    /\ settled' = IF outcome = "error_object" THEN settled ELSE Settle(settled)
    /\ UNCHANGED <<cdpVars, glVars>>
    /\ UNCHANGED <<file, clock, ops, last, write_failed, run_site, run_task, at_start>>

\* the for loop has run MAX_STEPS times
MaxStepsReached(outcome) ==
    /\ pc = "RUNNING"
    /\ step = MAX_STEPS
    /\ LET failed == record_workflow_failure(knowledge, run_site, run_task)
           saved  == save(failed, dirty \/ HasWorkflow(knowledge, run_site, run_task),
                          file, clock, outcome)
       IN  /\ knowledge' = saved.knowledge
           /\ file' = saved.file
           /\ write_failed' = (write_failed \/ saved.failed)
           /\ dirty' = FALSE
    /\ pc' = "EXHAUSTED"
    /\ UNCHANGED <<settled, warned, cdpVars, glVars>>
    /\ UNCHANGED <<clock, ops, last, action_history, run_site, run_task, step, history,
                   response, oracle_calls, tool_execs, switches, at_start>>

(* SpecAgentic: one run of AgenticLoop on a store loaded from its file *)

OracleResponses ==
    { RDone, RGiveUp, RAction, RParams, RUnknown, RUnknownTo, REmpty, RArray, RText }

RECURSIVE Degraded(_, _, _, _)
\* the store after n calls of record_workflow_failure
Degraded(k, s, t, n) ==
    IF n = 0 THEN k ELSE Degraded(record_workflow_failure(k, s, t), s, t, n - 1)

\* failures after which a new workflow is at the floor
FloorAfter == ((NEW_WORKFLOW_CONFIDENCE - MIN_CONFIDENCE) \div FAILURE_DELTA) + 1

\* stores of earlier sessions: empty, with a workflow just learned, and with one
\* that has failed until it reached the floor
LoadedStores ==
    { _get_default_knowledge(0) } \cup
    { Degraded(record_success(_get_default_knowledge(0), <<"instagram.com">>,
                              "send_dm", <<RAction>>, 0),
               <<"instagram.com">>, "send_dm", n) : n \in {0, FloorAfter} }

\* signatures left in the LoopDetector by an earlier run
Leftover ==
    [i \in 1..LOOP_THRESHOLD |-> Signature("navigate", UrlParams, FALSE)]

InitAgentic ==
    /\ clock = 0
    /\ knowledge \in LoadedStores
    /\ file = [status |-> "valid", doc |-> Dump(knowledge)]
    /\ write_failed = FALSE
    /\ dirty = FALSE
    /\ ops = 0
    /\ last = NoCall
    /\ action_history \in { <<>>, Leftover }
    /\ InitLoop
    /\ InitCdp
    /\ InitLearner

NextAgentic ==
    \/ \E goal \in Goals, connected \in BOOLEAN : StartRun(goal, connected)
    \/ \E r \in OracleResponses, outcome \in WriteOutcomes : Done(r, outcome)
    \/ \E r \in OracleResponses, outcome \in WriteOutcomes : GiveUp(r, outcome)
    \/ \E r \in OracleResponses : NotAnObject(r)
    \/ \E r \in OracleResponses : UnknownTool(r)
    \/ \E r \in OracleResponses : ParamsNotAMapping(r)
    \/ \E r \in OracleResponses, outcome \in ToolOutcomes : ExecuteTool(r, outcome)
    \/ \E outcome \in WriteOutcomes : MaxStepsReached(outcome)

SpecAgentic == InitAgentic /\ [][NextAgentic]_vars

----------------------------------------------------------------------------
(* BrowserCDP: the socket and _send_cdp *)

MaxSockets == 2
MaxCommands == 3
MaxReads == 2

\* websocket.create_connection(ws_url, timeout=10): seconds a recv waits for a message
SOCKET_TIMEOUT == 10

\* seconds after which the next message arrives: at once, or just within the timeout
Delays == { 0, SOCKET_TIMEOUT - 1 }

\* a message read from the socket: a JSON object with or without 'id', or JSON
\* that is no object
Response(id, body) == [object |-> TRUE, has_id |-> TRUE, id |-> id, body |-> body]
Event == [object |-> TRUE, has_id |-> FALSE, id |-> 0, body |-> "event"]
Garbage == [object |-> FALSE, has_id |-> FALSE, id |-> 0, body |-> "garbage"]

\* variant: any message that carries an id is taken as the response
MatchesAnyId(result, msg_id) == result.has_id

\* result.get('id') == self._msg_id
Matches(result, msg_id) == result.has_id /\ result.id = msg_id

\* what the socket can deliver while a command is outstanding
Deliverable ==
    { Response(wire.sent_id, body) : body \in {"result", "error"} }
      \cup { Response(id, "result") : id \in wire.late }
      \cup { Event, Garbage }

Returned(kind, id) == [kind |-> kind, id |-> id]

\* connect(): a page is found and a socket opened to it, or not; the socket held
\* before is not closed
Connect(found) ==
    /\ wire.pc = "idle"
    /\ cdp.created < MaxSockets
    /\ IF found
       THEN /\ cdp' = [cdp EXCEPT !.ws = cdp.created + 1,
                                  !.created = @ + 1,
                                  !.open = @ \cup {cdp.created + 1},
                                  !.connected = TRUE,
                                  !.page_url = FirstPage,
                                  !.target_url = FirstPage]
            /\ wire' = [wire EXCEPT !.late = {}]
       ELSE UNCHANGED <<cdp, wire>>
    /\ UNCHANGED <<storeVars, action_history, loopVars, glVars, tool_call>>

\* disconnect(): the socket is closed, self.ws keeps referring to it
Disconnect ==
    /\ wire.pc = "idle"
    /\ cdp' = [cdp EXCEPT !.open = @ \ {cdp.ws}, !.connected = FALSE]
    /\ UNCHANGED <<storeVars, action_history, loopVars, glVars, wire, tool_call>>

\* _send_cdp up to ws.send: without a socket nothing is sent and no id is used;
\* otherwise the next id is taken and the send succeeds or raises
SendCommand(send_ok) ==
    /\ wire.pc = "idle"
    /\ cdp.msg_id < MaxCommands
    /\ IF cdp.ws = 0
       THEN /\ wire' = [wire EXCEPT !.ret = Returned("error", 0)]
            /\ UNCHANGED cdp
       ELSE /\ cdp' = [cdp EXCEPT !.msg_id = @ + 1]
            /\ IF send_ok /\ cdp.ws \in cdp.open
               THEN wire' = [wire EXCEPT !.pc = "waiting",
                                         !.sent_id = cdp.msg_id + 1,
                                         !.used = Append(@, cdp.msg_id + 1),
                                         !.discarded = <<>>,
                                         !.elapsed = 0,
                                         !.ret = NoReturn]
               ELSE wire' = [wire EXCEPT !.sent_id = cdp.msg_id + 1,
                                         !.used = Append(@, cdp.msg_id + 1),
                                         !.discarded = <<>>,
                                         !.elapsed = 0,
                                         !.ret = Returned("error", 0)]
    /\ UNCHANGED <<storeVars, action_history, loopVars, glVars, tool_call>>

\* one turn of the while loop: ws.recv() delivers a message, which is returned
\* when its id is the current one and dropped otherwise; JSON that is no object
\* raises in result.get and ends the call with an error
Receive(msg, delay) ==
    /\ wire.pc = "waiting"
    /\ msg \in Deliverable
    /\ IF ~msg.object
       THEN wire' = [wire EXCEPT !.pc = "idle",
                                 !.elapsed = @ + delay,
                                 !.late = @ \cup {wire.sent_id},
                                 !.ret = Returned("error", 0)]
       ELSE IF Matches(msg, cdp.msg_id)
       THEN wire' = [wire EXCEPT !.pc = "idle",
                                 !.elapsed = @ + delay,
                                 !.late = @ \ {msg.id},
                                 !.ret = Returned("response", msg.id)]
       ELSE /\ Len(wire.discarded) < MaxReads
            /\ wire' = [wire EXCEPT !.discarded = Append(@, msg),
                                    !.elapsed = @ + delay,
                                    !.late = @ \ {msg.id}]
    /\ UNCHANGED <<storeVars, action_history, loopVars, glVars, cdp, tool_call>>

\* ws.recv() raises: no message within the socket timeout, or the socket was closed
ReceiveFails(reason) ==
    /\ wire.pc = "waiting"
    /\ wire' = [wire EXCEPT !.pc = "idle",
                            !.elapsed = IF reason = "timeout" THEN @ + SOCKET_TIMEOUT ELSE @,
                            !.late = IF reason = "timeout" THEN @ \cup {wire.sent_id} ELSE @,
                            !.ret = Returned("error", 0)]
    /\ cdp' = [cdp EXCEPT !.open = IF reason = "closed" THEN @ \ {cdp.ws} ELSE @]
    /\ UNCHANGED <<storeVars, action_history, loopVars, glVars, tool_call>>

NextCdp ==
    \/ \E found \in BOOLEAN : Connect(found)
    \/ Disconnect
    \/ \E send_ok \in BOOLEAN : SendCommand(send_ok)
    \/ \E msg \in Deliverable, delay \in Delays : Receive(msg, delay)
    \/ \E reason \in {"timeout", "closed"} : ReceiveFails(reason)

SpecCdp == Init /\ [][NextCdp]_vars

----------------------------------------------------------------------------
(* BrowserCDP: the tools *)

MaxToolCommands == 6
MaxScrolls == 2

\* what one _send_cdp call of a tool comes back with: a response with a result, a
\* response with the protocol's error object, a result that reports the navigation
\* as failed (errorText), or {"error": str(e)} after send or recv raised
CommandOutcomes == { "result", "error", "errorText", "transport" }

Command(method, url) == [method |-> method, url |-> url]

Commands(n, method) == [i \in 1..n |-> Command(method, NoUrl)]

ToolCall(tool, url, sent, transport, reused, success, error, scrolls) ==
    [tool |-> tool, url |-> url, sent |-> sent, transport |-> transport,
     reused |-> reused, success |-> success, error |-> error, scrolls |-> scrolls]

NotConnected(tool, url) ==
    ToolCall(tool, url, <<>>, FALSE, FALSE, FALSE, "Not connected", 0)

\* is_connected()
is_connected == cdp.connected /\ cdp.ws # 0

ToolReady == wire.pc = "idle" /\ cdp.msg_id < MaxToolCommands

\* the state after a tool sent n commands on the socket it holds
AfterCommands(n) == [cdp EXCEPT !.msg_id = @ + n]

\* click(target): one Runtime.evaluate; the value defaults to 'error'
Click(found, outcome) ==
    /\ ToolReady
    /\ IF ~is_connected
       THEN tool_call' = NotConnected("click", NoUrl) /\ UNCHANGED cdp
       ELSE /\ cdp' = AfterCommands(1)
            /\ tool_call' =
                 ToolCall("click", NoUrl, Commands(1, "Runtime.evaluate"),
                          outcome = "transport", FALSE,
                          outcome = "result" /\ found,
                          IF outcome = "result" /\ found THEN "none" ELSE "Could not find", 0)
    /\ UNCHANGED <<storeVars, action_history, loopVars, glVars, wire>>

\* click_nth(target, index): one Runtime.evaluate; succeeds when more than index
\* elements match
ClickNth(index, matches, outcome) ==
    /\ ToolReady
    /\ IF ~is_connected
       THEN tool_call' = NotConnected("click_nth", NoUrl) /\ UNCHANGED cdp
       ELSE /\ cdp' = AfterCommands(1)
            /\ tool_call' =
                 ToolCall("click_nth", NoUrl, Commands(1, "Runtime.evaluate"),
                          outcome = "transport", FALSE,
                          outcome = "result" /\ matches > index,
                          IF outcome = "result" /\ matches > index THEN "none"
                          ELSE IF outcome = "result" THEN "not found at index"
                          ELSE "error", 0)
    /\ UNCHANGED <<storeVars, action_history, loopVars, glVars, wire>>

\* type_text(text, field): an optional Runtime.evaluate to focus the field, then a
\* keyDown and a keyUp per character; no result of _send_cdp is looked at
TypeText(len, field, fail_at) ==
    /\ ToolReady
    /\ IF ~is_connected
       THEN tool_call' = NotConnected("type", NoUrl) /\ UNCHANGED cdp
       ELSE LET focus == IF field THEN Commands(1, "Runtime.evaluate") ELSE <<>>
                keys  == Commands(2 * len, "Input.dispatchKeyEvent")
            IN  /\ fail_at <= Len(focus \o keys)
                /\ cdp' = AfterCommands(Len(focus \o keys))
                /\ tool_call' = ToolCall("type", NoUrl, focus \o keys, fail_at > 0,
                                         FALSE, TRUE, "none", 0)
    /\ UNCHANGED <<storeVars, action_history, loopVars, glVars, wire>>

\* press_key(key): a keyDown and a keyUp; no result of _send_cdp is looked at
PressKey(fail_at) ==
    /\ ToolReady
    /\ IF ~is_connected
       THEN tool_call' = NotConnected("press", NoUrl) /\ UNCHANGED cdp
       ELSE /\ cdp' = AfterCommands(2)
            /\ tool_call' = ToolCall("press", NoUrl, Commands(2, "Input.dispatchKeyEvent"),
                                     fail_at > 0, FALSE, TRUE, "none", 0)
    /\ UNCHANGED <<storeVars, action_history, loopVars, glVars, wire>>

\* scroll(direction, amount): one mouseWheel event; its result is not looked at
Scroll(outcome) ==
    /\ ToolReady
    /\ IF ~is_connected
       THEN tool_call' = NotConnected("scroll", NoUrl) /\ UNCHANGED cdp
       ELSE /\ cdp' = AfterCommands(1)
            /\ tool_call' = ToolCall("scroll", NoUrl, Commands(1, "Input.dispatchMouseEvent"),
                                     outcome = "transport", FALSE, TRUE, "none", 0)
    /\ UNCHANGED <<storeVars, action_history, loopVars, glVars, wire>>

RECURSIVE ScrollFindFrom(_, _, _, _, _, _)
\* the for loop of scroll_find from iteration i, after n commands and `scrolled`
\* effective scrolls: the text is visible once appears_after scrolls took effect;
\* from command fail_at on (0: never) every command hits a transport error
ScrollFindFrom(i, scrolled, n, max_scrolls, appears_after, fail_at) ==
    IF i = max_scrolls
    THEN [success |-> FALSE, scrolls |-> i, sent |-> n, scrolled |-> scrolled]
    ELSE IF ~(fail_at > 0 /\ n + 1 >= fail_at) /\ scrolled >= appears_after
    THEN [success |-> TRUE, scrolls |-> i, sent |-> n + 1, scrolled |-> scrolled]
    ELSE ScrollFindFrom(i + 1,
                        IF fail_at > 0 /\ n + 2 >= fail_at THEN scrolled ELSE scrolled + 1,
                        n + 2, max_scrolls, appears_after, fail_at)

\* scroll_find(text, max_scrolls); "page" keeps the call's bound and how far the
\* page was when the call returned
ScrollFind(max_scrolls, appears_after, fail_at) ==
    /\ ToolReady
    /\ IF ~is_connected
       THEN tool_call' = NotConnected("scroll_find", NoUrl) /\ UNCHANGED cdp
       ELSE LET r == ScrollFindFrom(0, 0, 0, max_scrolls, appears_after, fail_at)
            IN  /\ fail_at <= r.sent
                /\ cdp' = AfterCommands(r.sent)
                /\ tool_call' =
                     Put(ToolCall("scroll_find", NoUrl,
                                  [k \in 1..r.sent |->
                                     Command(IF k % 2 = 1 THEN "Runtime.evaluate"
                                             ELSE "Input.dispatchMouseEvent", NoUrl)],
                                  fail_at > 0, FALSE, r.success,
                                  IF r.success THEN "none" ELSE "not found", r.scrolls),
                         "page", [max_scrolls   |-> max_scrolls,
                                  appears_after |-> appears_after,
                                  scrolled      |-> r.scrolled])
    /\ UNCHANGED <<storeVars, action_history, loopVars, glVars, wire>>

(* navigate *)

\* url.startswith("http")
StartsWithHttp(u) ==
    \/ u.scheme \in {"http://", "https://"}
    \/ u.scheme = "" /\ u.host # <<>> /\ u.host[1] \in {"httpbin.org"}

\* if not url.startswith("http"): url = "https://" + url
Prefixed(u) == IF StartsWithHttp(u) THEN u ELSE [u EXCEPT !.scheme = "https://"]

\* urlparse(url).netloc.replace("www.", ""): without a scheme there is no netloc
Domain(u) == IF u.scheme = "" THEN <<>> ELSE StripWww(u.host)

\* domain in page.get('url', '').lower(): the empty string is in every string
Contains(u, domain) ==
    \/ domain = <<>>
    \/ StripWww(u.host) = domain
    \/ u.path = "/search?q=instagram.com" /\ domain = <<"instagram.com">>

NotChrome(u) == u.scheme # "chrome://" /\ u.host # <<"about:blank">>

First(S) == CHOOSE i \in S : \A j \in S : i <= j

\* _find_page(domain) on the page targets the browser lists: <<>> is None
_find_page(pages, domain) ==
    LET matching  == { i \in 1..Len(pages) : Contains(pages[i], domain) }
        notchrome == { i \in 1..Len(pages) : NotChrome(pages[i]) }
    IN  IF domain # <<>> /\ matching # {} THEN << pages[First(matching)] >>
        ELSE IF notchrome # {} THEN << pages[First(notchrome)] >>
        ELSE IF pages # <<>> THEN << pages[1] >>
        ELSE <<>>

Inbox == Url("https://", <<"instagram.com">>, "/direct/inbox")

NavUrls == { Inbox, Url("", <<WWW, "instagram.com">>, ""), Url("", <<"httpbin.org">>, "") }

PageLists ==
    { <<>>,
      << Url("chrome://", <<"newtab">>, "") >>,
      << FirstPage >>,
      << FirstPage, Url("https://", <<WWW, "instagram.com">>, "/") >>,
      << Url("https://", <<"google.com">>, "/search?q=instagram.com") >> }

\* the socket of navigate's tab switch or of its connect(): the tab switch closes
\* the socket held before, connect() does not
Opened(c, page, close_old) ==
    [c EXCEPT !.ws = c.created + 1,
              !.created = @ + 1,
              !.open = (IF close_old THEN @ \ {c.ws} ELSE @) \cup {c.created + 1},
              !.connected = TRUE,
              !.page_url = page,
              !.target_url = page]

\* navigate(url): switches to a tab that is already on the domain, otherwise
\* connects if needed and sends Page.navigate
Navigate(url, pages, can_connect, outcome) ==
    /\ ToolReady
    /\ cdp.created < MaxSockets
    /\ LET url1     == Prefixed(url)
           existing == _find_page(pages, Domain(url1))
           first    == _find_page(pages, <<>>)
           base     == IF is_connected THEN cdp ELSE Opened(cdp, first[1], FALSE)
           nav      == Command("Page.navigate", url1)
       IN  IF existing # <<>> /\ Contains(existing[1], Domain(url1))
           THEN IF can_connect
                THEN /\ cdp' = Opened(cdp, existing[1], TRUE)
                     /\ tool_call' = ToolCall("navigate", url, <<>>, FALSE, TRUE, TRUE, "none", 0)
                ELSE /\ cdp' = [cdp EXCEPT !.open = @ \ {cdp.ws}, !.connected = FALSE]
                     /\ tool_call' = ToolCall("navigate", url, <<>>, FALSE, FALSE, FALSE,
                                              "exception", 0)
           ELSE IF ~is_connected /\ (first = <<>> \/ ~can_connect)
           THEN /\ UNCHANGED cdp
                /\ tool_call' = ToolCall("navigate", url, <<>>, FALSE, FALSE, FALSE,
                                         "Could not connect", 0)
           ELSE /\ cdp' = [base EXCEPT
                             !.msg_id = @ + 1,
                             !.page_url = IF outcome \in {"result", "errorText"}
                                          THEN url1 ELSE @,
                             !.target_url = IF outcome = "result" THEN url1 ELSE @]
                /\ tool_call' =
                     ToolCall("navigate", url, <<nav>>, outcome = "transport", FALSE,
                              outcome \in {"result", "errorText"},
                              IF outcome = "error" THEN "object"
                              ELSE IF outcome = "transport" THEN "text" ELSE "none", 0)
    /\ UNCHANGED <<storeVars, action_history, loopVars, glVars, wire>>

(* SpecTools: the tools of BrowserCDP on a socket that may fail *)

NextTools ==
    \/ \E found \in BOOLEAN : Connect(found)
    \/ Disconnect
    \/ \E found \in BOOLEAN, outcome \in CommandOutcomes : Click(found, outcome)
    \/ \E index \in 0..1, matches \in 0..2, outcome \in CommandOutcomes :
         ClickNth(index, matches, outcome)
    \/ \E len \in 0..2, field \in BOOLEAN, fail_at \in 0..2 : TypeText(len, field, fail_at)
    \/ \E fail_at \in 0..2 : PressKey(fail_at)
    \/ \E outcome \in CommandOutcomes : Scroll(outcome)
    \/ \E max_scrolls \in 0..MaxScrolls, appears_after \in 0..(MaxScrolls + 1),
          fail_at \in 0..2 : ScrollFind(max_scrolls, appears_after, fail_at)
    \/ \E url \in NavUrls, pages \in PageLists, can_connect \in BOOLEAN,
          outcome \in CommandOutcomes : Navigate(url, pages, can_connect, outcome)

SpecTools == Init /\ [][NextTools]_vars

----------------------------------------------------------------------------
(* GuidedLearner: _parse_instruction and _execute_step *)

(* An instruction is the sequence of the words of the stripped input line,   *)
(* <<>> being the empty line; the texts cut out of it are sequences of words *)
(* too.  The inputs carry no quotes, so strip('"\'') leaves them as they are. *)

\* str.lower() on the words of the model
LowerWord(w) == IF w = "Click" THEN "click" ELSE IF w = "Done" THEN "done" ELSE w

LowerWords(instruction) == [i \in 1..Len(instruction) |-> LowerWord(instruction[i])]

\* " in " in lower: a word "in" that is neither the first nor the last one
HasIn(lower) == \E i \in 2..(Len(lower) - 1) : lower[i] = "in"

FirstIn(lower) ==
    CHOOSE i \in 2..(Len(lower) - 1) :
        lower[i] = "in" /\ \A j \in 2..(i - 1) : lower[j] # "in"

\* re.search(r'(\d+)', instruction): the first number of the line, 2 without one;
\* "3" is the number word of the model
Seconds(instruction) ==
    LET at == { i \in 1..Len(instruction) : instruction[i] = "3" }
    IN  IF at = {} THEN 2 ELSE 3

\* what _parse_instruction gives: a step, None, or an exception
Parsed(s) == [kind |-> "step", step |-> s]

_parse_instruction(instruction) ==
    LET lower == LowerWords(instruction)
        first == IF lower = <<>> THEN "" ELSE lower[1]
        n     == Len(instruction)
    IN  IF first = "click" /\ n >= 2
        THEN Parsed([action |-> "click", target |-> Tail(instruction)])
        ELSE IF HasIn(lower) /\ first \in {"type", "enter"}
        THEN \* parts[0].split(" ", 1)[1] raises IndexError when nothing precedes " in "
             IF FirstIn(lower) = 2
             THEN [kind |-> "raise", step |-> EmptyDict]
             ELSE Parsed([action |-> "type",
                          text   |-> SubSeq(instruction, 2, FirstIn(lower) - 1),
                          field  |-> SubSeq(instruction, FirstIn(lower) + 1, n)])
        ELSE IF first \in {"type", "enter"} /\ n >= 2
        THEN Parsed([action |-> "type", text |-> Tail(instruction)])
        ELSE IF first = "press" /\ n >= 2
        THEN Parsed([action |-> "press", key |-> Tail(instruction)])
        ELSE IF first = "wait"
        THEN Parsed([action |-> "wait", seconds |-> Seconds(instruction)])
        ELSE IF \E i \in 1..n : lower[i] = "scroll"
        THEN Parsed([action    |-> "scroll",
                     direction |-> IF \E i \in 1..n : lower[i] = "down"
                                   THEN "down" ELSE "up"])
        ELSE IF n >= 3 /\ first \in {"go", "navigate"} /\ lower[2] = "to"
        THEN Parsed([action |-> "navigate",
                     url    |-> IF instruction[3] \in {"http://", "https://"}
                                THEN SubSeq(instruction, 3, n)
                                ELSE <<"https://">> \o SubSeq(instruction, 3, n)])
        ELSE [kind |-> "none", step |-> EmptyDict]

\* the browser tool's result.get("success", False); an exception gives False
_execute_step(one_step, outcome) ==
    IF one_step.action = "wait" THEN TRUE
    ELSE IF one_step.action \in {"click", "type", "press", "scroll", "navigate"} THEN outcome
    ELSE FALSE

----------------------------------------------------------------------------
(* GuidedLearner: learn_task *)

MaxInstructions == 3

LearnTasks == { "send_dm" }
LearnSites == { <<>>, <<"instagram.com">> }
StartUrls  == { <<>>, <<"https://", "instagram.com">> }

Instructions ==
    { <<"Click", "Send">>,
      <<"type", "${message}", "in", "message">>,
      <<"type", "in", "search">>,
      <<"wait", "3", "seconds">>,
      <<"hover", "Send">>,
      <<"don't", "scroll">>,
      <<>>,
      <<"undo">>, <<"Done">>, <<"cancel">> }

Indicators == { <<>>, <<"Message", "sent">> }

\* what screenshot_base64() returned for the page the session is on
screenshot_data == [url |-> <<"https://", "instagram.com">>, title |-> "Instagram", image |-> ""]

IsCommand(user_input, word) == Len(user_input) = 1 /\ LowerWord(user_input[1]) = word

\* str.replace('.', '_') on the tokens of a site
UnderscoredToken(tok) ==
    IF tok = "instagram.com" THEN "instagram_com"
    ELSE IF tok = "twitter.com" THEN "twitter_com"
    ELSE IF tok = WWW THEN "www_"
    ELSE tok

agent_name(site, task_name) ==
    IF site # <<>>
    THEN [i \in 1..Len(site) |-> UnderscoredToken(site[i])] \o <<"_", task_name>>
    ELSE <<task_name>>

StartingPoint(start_url) ==
    [action |-> "navigate", url |-> start_url, note |-> "Starting point"]

\* the step as it is recorded
Recorded(one_step, user_input) ==
    Put(Put(Put(one_step, "screenshot_before", <<screenshot_data.image, "...">>),
            "user_instruction", user_input),
        "url_at_step", screenshot_data.url)

BuildAgent(task_name, site, steps, indicator, t) ==
    [ task              |-> task_name,
      site              |-> site,
      learned_at        |-> t,
      learned_from      |-> "guided_user_interaction",
      total_steps       |-> Len(steps),
      steps             |-> steps,
      success_indicator |-> IF indicator # <<>>
                            THEN << [type |-> "text_appears", text |-> indicator] >>
                            ELSE <<>>,
      common_failures   |-> <<>> ]

\* learn_task up to its first question
LearnTask(task_name, site, start_url, browser, connected, navigated, reconnected) ==
    /\ learner.pc = "idle"
    /\ LET s0 == [NoSession EXCEPT !.task = task_name, !.site = site]
           s1 == IF start_url # <<>>
                 THEN [s0 EXCEPT !.calls = << [step    |-> StartingPoint(start_url),
                                              success |-> navigated] >>,
                                 !.steps = << StartingPoint(start_url) >>,
                                 !.step_num = 1]
                 ELSE s0
       IN  learner' = IF ~browser
                      THEN [s0 EXCEPT !.pc = "returned"]
                      ELSE IF start_url # <<>> /\ ~connected
                      THEN [s0 EXCEPT !.pc = "returned"]
                      ELSE IF ~reconnected
                      THEN [s1 EXCEPT !.pc = "returned"]
                      ELSE [s1 EXCEPT !.pc = "asking"]
    /\ UNCHANGED <<storeVars, action_history, loopVars, cdpVars, agents, execution>>

\* one turn of the learning loop: the question, the answer and what it leads to
Instruct(user_input, outcome) ==
    /\ learner.pc = "asking"
    /\ LET s == [learner EXCEPT !.step_num = @ + 1, !.user_input = user_input]
           p == _parse_instruction(user_input)
       IN  learner' =
             IF user_input = <<>> THEN s
             ELSE IF IsCommand(user_input, "done") THEN [s EXCEPT !.pc = "indicator"]
             ELSE IF IsCommand(user_input, "cancel") THEN [s EXCEPT !.pc = "returned"]
             ELSE IF IsCommand(user_input, "back") \/ IsCommand(user_input, "undo")
             THEN [s EXCEPT !.steps = IF @ # <<>> THEN SubSeq(@, 1, Len(@) - 1) ELSE @]
             ELSE IF p.kind = "raise" THEN [s EXCEPT !.pc = "raised"]
             ELSE IF p.kind = "none" THEN s
             ELSE [s EXCEPT
                     !.calls = Append(@, [step    |-> p.step,
                                          success |-> _execute_step(p.step, outcome)]),
                     !.steps = IF _execute_step(p.step, outcome)
                               THEN Append(@, Recorded(p.step, user_input))
                               ELSE @]
    /\ UNCHANGED <<storeVars, action_history, loopVars, cdpVars, agents, execution>>

\* EOFError or KeyboardInterrupt at the question
EndOfInput ==
    /\ learner.pc = "asking"
    /\ learner' = [learner EXCEPT !.step_num = @ + 1, !.pc = "returned"]
    /\ UNCHANGED <<storeVars, action_history, loopVars, cdpVars, agents, execution>>

\* after done: the success indicator (an exception at that question is passed
\* over), the agent, its name and save_agent
Finish(indicator, written) ==
    /\ learner.pc = "indicator"
    /\ LET agent == BuildAgent(learner.task, learner.site, learner.steps, indicator, clock)
       IN  IF written
           THEN /\ agents' = Put(agents, agent_name(learner.site, learner.task), agent)
                /\ learner' = [learner EXCEPT !.pc = "returned", !.ret = <<agent>>]
           ELSE /\ agents' = agents
                /\ learner' = [learner EXCEPT !.pc = "raised"]
    /\ UNCHANGED <<storeVars, action_history, loopVars, cdpVars, execution>>

(* SpecLearner: one session of learn_task beside an empty knowledge store *)

NextLearner ==
    \/ \E task_name \in LearnTasks, site \in LearnSites, start_url \in StartUrls,
          browser \in BOOLEAN, connected \in BOOLEAN, navigated \in BOOLEAN,
          reconnected \in BOOLEAN :
         LearnTask(task_name, site, start_url, browser, connected, navigated, reconnected)
    \/ \E user_input \in Instructions, outcome \in BOOLEAN :
         learner.step_num < MaxInstructions /\ Instruct(user_input, outcome)
    \/ EndOfInput
    \/ \E indicator \in Indicators, written \in BOOLEAN : Finish(indicator, written)

SpecLearner == Init /\ [][NextLearner]_vars

----------------------------------------------------------------------------
(* GuidedLearner: execute_agent *)

MaxExecutions == 2

RECURSIVE Replace(_, _, _)
\* str.replace of "${name}" and of "$name" in a text, for the parameter of the model
Replace(text, param_name, param_value) ==
    IF text = <<>> THEN <<>>
    ELSE (IF param_name = "message" /\ Head(text) \in {"${message}", "$message"}
          THEN param_value ELSE <<Head(text)>>)
         \o Replace(Tail(text), param_name, param_value)

RECURSIVE ReplaceAll(_, _, _)
ReplaceAll(text, params, names) ==
    IF names = {} THEN text
    ELSE LET param_name == CHOOSE x \in names : TRUE
         IN  ReplaceAll(Replace(text, param_name, params[param_name]),
                        params, names \ {param_name})

\* the values that are texts have their placeholders replaced; "seconds" holds
\* a number and the values of the other keys hold no "$"
Substituted(one_step, params) ==
    [ key \in DOMAIN one_step |->
        IF key \in { "target", "text", "field", "key", "url", "user_instruction",
                     "url_at_step", "screenshot_before" }
        THEN ReplaceAll(one_step[key], params, DOMAIN params)
        ELSE one_step[key] ]

\* variant: the placeholders are replaced in the step that was passed
_substitute_params_in_place(one_step, params) ==
    [ step_copy |-> Substituted(one_step, params),
      passed    |-> Substituted(one_step, params) ]

\* step_copy is what is returned, passed is the dict that was passed, after the call
_substitute_params(one_step, params) ==
    [ step_copy |-> Substituted(one_step, params),
      passed    |-> one_step ]

RECURSIVE RunSteps(_, _, _, _, _, _)
\* the for loop from step i on: the result, and the steps of the agent afterwards
RunSteps(agent, params, outcomes, i, executed_steps, steps) ==
    IF i > Len(steps)
    THEN [ ret   |-> [ success         |-> TRUE,
                       task            |-> agent.task,
                       completed_steps |-> Len(steps),
                       history         |-> executed_steps ],
           steps |-> steps ]
    ELSE LET sub     == _substitute_params(steps[i], params)
             success == _execute_step(sub.step_copy, outcomes[i])
             done    == Append(executed_steps,
                               [step |-> i, action |-> sub.step_copy, success |-> success])
             after   == [steps EXCEPT ![i] = sub.passed]
         IN  IF ~success
             THEN [ ret   |-> [ success         |-> FALSE,
                                error           |-> [text   |-> "Failed at step",
                                                     step   |-> i,
                                                     action |-> sub.step_copy.action],
                                completed_steps |-> i - 1,
                                total_steps     |-> Len(steps),
                                history         |-> done ],
                    steps |-> after ]
             ELSE RunSteps(agent, params, outcomes, i + 1, done, after)

\* the result of execute_agent(agent, params), and the agent afterwards
execute_agent(agent, params, browser, connected, outcomes) ==
    IF ~browser
    THEN [ ret   |-> [success |-> FALSE, error |-> [text |-> "Browser not available"]],
           agent |-> agent ]
    ELSE IF ~connected
    THEN [ ret   |-> [success |-> FALSE, error |-> [text |-> "Could not connect to browser"]],
           agent |-> agent ]
    ELSE LET run == RunSteps(agent, params, outcomes, 1, <<>>, agent.steps)
         IN  [ ret |-> run.ret, agent |-> [agent EXCEPT !.steps = run.steps] ]

\* load_agent(name) and execute_agent on what it returned
ExecuteAgent(name, params, browser, connected, outcomes) ==
    /\ name \in DOMAIN agents
    /\ LET done == execute_agent(agents[name], params, browser, connected, outcomes)
       IN  execution' = [ name      |-> name,
                          params    |-> params,
                          browser   |-> browser,
                          connected |-> connected,
                          outcomes  |-> outcomes,
                          agent     |-> done.agent,
                          ret       |-> done.ret,
                          runs      |-> execution.runs + 1 ]
    /\ UNCHANGED <<storeVars, action_history, loopVars, cdpVars, learner, agents>>

(* SpecExecute: execute_agent on agents that learn_task has saved *)

Learned(instruction) == Recorded(_parse_instruction(instruction).step, instruction)

LearnedSteps ==
    { <<>>,
      << Learned(<<"Click", "Send">>) >>,
      << Learned(<<"Click", "Send">>),
         Learned(<<"type", "${message}", "in", "message">>),
         Learned(<<"wait", "3", "seconds">>) >>,
      << StartingPoint(<<"https://", "instagram.com">>),
         Learned(<<"type", "$message">>),
         Learned(<<"don't", "scroll">>) >> }

ExecuteParams == { EmptyDict, [message |-> <<"hello", "there">>] }

MaxAgentSteps == 3

InitExecute ==
    /\ InitStore("written")
    /\ action_history = <<>>
    /\ InitLoop
    /\ InitCdp
    /\ learner = NoSession
    /\ \E steps \in LearnedSteps :
         agents = Put(EmptyDict, agent_name(<<"instagram.com">>, "send_dm"),
                      BuildAgent("send_dm", <<"instagram.com">>, steps, <<>>, 0))
    /\ execution = NoExecution

NextExecute ==
    \E name \in DOMAIN agents, params \in ExecuteParams, browser \in BOOLEAN,
       connected \in BOOLEAN, outcomes \in [1..MaxAgentSteps -> BOOLEAN] :
         execution.runs < MaxExecutions
         /\ ExecuteAgent(name, params, browser, connected, outcomes)

SpecExecute == InitExecute /\ [][NextExecute]_vars

----------------------------------------------------------------------------
(* Properties *)

Workflows(k) ==
    { <<site, task>> \in (DOMAIN k.sites) \X Tasks : task \in DOMAIN k.sites[site].workflows }

WorkflowOf(k, site, task) == k.sites[site].workflows[task]

\* C1: every stored workflow has its confidence within [0.1, 1.0] after any
\* sequence of recordSuccess and recordWorkflowFailure calls from the empty store.
C1_ConfidenceInRange ==
    \A st \in Workflows(knowledge) :
        /\ WorkflowOf(knowledge, st[1], st[2]).confidence >= MIN_CONFIDENCE
        /\ WorkflowOf(knowledge, st[1], st[2]).confidence <= MAX_CONFIDENCE

\* a failure was recorded on a workflow that was already at the floor
C1_Witness ==
    /\ last.op = "record_workflow_failure"
    /\ last.hit
    /\ WorkflowOf(knowledge, last.site, last.task).confidence = MIN_CONFIDENCE
    /\ WorkflowOf(knowledge, last.site, last.task).fail_count * FAILURE_DELTA
          > NEW_WORKFLOW_CONFIDENCE - MIN_CONFIDENCE

\* C6: recordSuccess on a (site, task) that already has a workflow adds no entry
\* and changes nothing of the store but that workflow's confidence, success_count
\* and last-success timestamp, whatever step list is passed.
C6_RepeatedSuccessKeepsSteps ==
    [][ (last'.op = "record_success" /\ last'.hit /\ ops' # ops) =>
          LET site == last'.site
              task == last'.task
              after == WorkflowOf(knowledge', site, task)
          IN  /\ Workflows(knowledge') = Workflows(knowledge)
              /\ knowledge' = [knowledge EXCEPT !.sites[site].workflows[task] =
                                  [@ EXCEPT !.confidence    = after.confidence,
                                            !.success_count = after.success_count,
                                            !.last_success  = after.last_success]]
      ]_vars

\* a second recordSuccess came with a step list other than the stored one
C6_Witness ==
    /\ last.op = "record_success"
    /\ last.hit
    /\ WorkflowOf(knowledge, last.site, last.task).steps # last.arg
    /\ WorkflowOf(knowledge, last.site, last.task).success_count = 2

MatchingFailures(k, site, task, wrong_approach) ==
    { i \in 1..Len(k.learned_failures) :
        /\ k.learned_failures[i].site = site
        /\ k.learned_failures[i].task = task
        /\ k.learned_failures[i].wrong_approach = wrong_approach }

\* C7: recordFailure repeated for an identical (site, task, wrongApproach) leaves
\* exactly one FailureRecord for the triple, with last_seen set to the time of the
\* call and a confidence not lower than before and not above 1.0.
C7_RepeatedFailureIsDeduplicated ==
    [][ (last'.op = "record_failure" /\ last'.hit /\ ops' # ops) =>
          LET before == MatchingFailures(knowledge, last'.site, last'.task, last'.arg)
              after  == MatchingFailures(knowledge', last'.site, last'.task, last'.arg)
          IN  /\ Cardinality(after) = 1
              /\ after = before
              /\ Len(knowledge'.learned_failures) = Len(knowledge.learned_failures)
              /\ \A i \in after :
                    /\ knowledge'.learned_failures[i].last_seen = <<clock'>>
                    /\ knowledge'.learned_failures[i].confidence
                          >= knowledge.learned_failures[i].confidence
                    /\ knowledge'.learned_failures[i].confidence <= MAX_CONFIDENCE
      ]_vars

\* the same triple was recorded a second time
C7_Witness ==
    /\ last.op = "record_failure"
    /\ last.hit
    /\ \E i \in MatchingFailures(knowledge, last.site, last.task, last.arg) :
          /\ knowledge.learned_failures[i].last_seen = <<clock>>
          /\ knowledge.learned_failures[i].confidence
                = NEW_FAILURE_CONFIDENCE + REPEAT_FAILURE_DELTA

AllSame(h) == \A i \in 1..Len(h) : h[i] = h[1]

SameContent(k1, k2) ==
    /\ k1.sites = k2.sites
    /\ k1.learned_failures = k2.learned_failures
    /\ k1.contacts = k2.contacts

\* the last call was a save or force_save that left the store in the file: it
\* wrote the file, or had nothing to write and no write has failed before
Persisted(call, failed) ==
    /\ call.op \in {"save", "force_save"}
    /\ \/ call.hit /\ call.arg = <<"written">>
       \/ ~call.hit /\ ~failed

C8_ThreeIdenticalFailuresLoop ==
    /\ (action_history = <<>>) => ~is_looping(action_history)
    /\ (action_history # <<>> /\ AllSame(action_history) /\ EndsWithFalse(action_history[1]))
          => (is_looping(action_history) <=> Len(action_history) >= LOOP_THRESHOLD)

\* the same failing signature was fed exactly three times
C8_Witness ==
    /\ Len(action_history) = LOOP_THRESHOLD
    /\ AllSame(action_history)
    /\ EndsWithFalse(action_history[1])
    /\ is_looping(action_history)

Alternating(h) ==
    /\ Cardinality(Range(h)) = 2
    /\ \A i \in 1..(Len(h) - 1) : h[i] # h[i + 1]
    /\ \A i \in 1..Len(h) : EndsWithFalse(h[i])

\* C9: whenever the 5 most recent signatures all failed and alternate between
\* exactly 2 distinct signatures, isLooping() is true.
C9_AlternationLoops ==
    (Len(action_history) >= RECENT_WINDOW /\ Alternating(LastN(action_history, RECENT_WINDOW)))
        => is_looping(action_history)

\* five alternating failures, no three consecutive signatures identical
C9_Witness ==
    /\ Len(action_history) >= RECENT_WINDOW
    /\ Alternating(LastN(action_history, RECENT_WINDOW))
    /\ ~is_looping_strict(action_history)
    /\ is_looping(action_history)


(* Properties of AgenticLoop *)

ConcreteAction(r) ==
    /\ r.kind = "object"
    /\ ~r.done
    /\ ~r.give_up
    /\ r.tool \in ToolNames
    /\ r.params.mapping

\* every answer of the oracle in this run was a concrete action
AlwaysConcrete ==
    /\ oracle_calls > 0
    /\ oracle_calls = Len(history)
    /\ \A i \in 1..Len(history) : ConcreteAction(history[i].action)

Ended == pc \in { "DONE", "GIVEN_UP", "EXHAUSTED", "CRASHED" }

Malformed(r) == r.kind \in { "text", "array" } \/ r = REmpty

\* C3: an oracle response that is not valid JSON, or is valid JSON of none of the
\* three shapes, makes the run take a single transition to GIVEN_UP: no crash, no
\* tool executed for it, no further oracle call.
C3_MalformedResponseGivesUp ==
    [][ (oracle_calls' = oracle_calls + 1 /\ Malformed(response')) =>
            (pc' = "GIVEN_UP" /\ tool_execs' = tool_execs) ]_vars

\* C4: every run ends in exactly one of DONE, GIVEN_UP, EXHAUSTED, after at most 15
\* iterations, oracle calls and tool executions.
C4_RunEndsInTerminalState ==
    /\ step <= MAX_STEPS
    /\ oracle_calls <= MAX_STEPS
    /\ tool_execs <= MAX_STEPS
    /\ pc \in { "idle", "NOT_CONNECTED", "RUNNING", "DONE", "GIVEN_UP", "EXHAUSTED" }

\* C5: no workflow with zero steps is ever stored, nor written to the file.
C5_NoEmptyWorkflowPersisted ==
    /\ \A st \in Workflows(knowledge) :
          Len(WorkflowOf(knowledge, st[1], st[2]).steps) > 0
    /\ file.status = "valid" =>
          \A st \in Workflows(Parse(file.doc)) :
              Len(WorkflowOf(Parse(file.doc), st[1], st[2]).steps) > 0


(* Properties of get_site_workflow *)

\* C11: in an empty store get_site_workflow returns nothing; after one
\* record_success(site, task, [stepA, stepB]) that created the workflow it returns
\* a workflow with exactly these steps, in order, and a confidence strictly
\* between 0.5 and 1.0.
C11_LookupAfterFirstSuccess ==
    [][ (last'.op = "get_site_workflow" /\ ops' # ops) =>
          /\ knowledge.sites = EmptyDict => last'.arg = <<>>
          /\ ( /\ last.op = "record_success"
               /\ ~last.hit
               /\ last.arg = <<StepA, StepB>>
               /\ StripWww(last'.site) = last.site
               /\ last'.task = last.task ) =>
                 /\ last'.arg # <<>>
                 /\ last'.arg[1].steps = <<StepA, StepB>>
                 /\ last'.arg[1].confidence > 50
                 /\ last'.arg[1].confidence < MAX_CONFIDENCE ]_vars

\* the workflow was created under instagram.com and looked up under www.instagram.com
C11_Witness ==
    /\ last.op = "get_site_workflow"
    /\ last.site = <<WWW, "instagram.com">>
    /\ last.hit
    /\ ops = 2
    /\ last.arg[1].steps = <<StepA, StepB>>
    /\ last.arg[1].success_count = 1


(* Properties of the terminal outcomes of AgenticLoop *)

\* the actions whose tool was executed with success, in execution order
ExecutedOk(h) ==
    LET ok == SelectSeq(h, LAMBDA e : e.action.tool \in ToolNames /\ e.result.success)
    IN  [i \in 1..Len(ok) |-> ok[i].action]

\* this step applied record_success to (run_site, run_task) once, with the
\* successful actions of the run
SuccessRecordedOnce ==
    /\ HasWorkflow(knowledge', run_site, run_task)
    /\ IF HasWorkflow(knowledge, run_site, run_task)
       THEN /\ WorkflowOf(knowledge', run_site, run_task).success_count =
                 WorkflowOf(knowledge, run_site, run_task).success_count + 1
            /\ WorkflowOf(knowledge', run_site, run_task).fail_count =
                 WorkflowOf(knowledge, run_site, run_task).fail_count
       ELSE /\ WorkflowOf(knowledge', run_site, run_task).success_count = 1
            /\ WorkflowOf(knowledge', run_site, run_task).fail_count = 0
            /\ WorkflowOf(knowledge', run_site, run_task).steps = ExecutedOk(history)

\* this step ran save(): the store is clean, and the file holds it unless the
\* write failed
Flushed ==
    /\ dirty' = FALSE
    /\ write_failed' = write_failed =>
          /\ file'.status = "valid"
          /\ SameContent(Parse(file'.doc), knowledge')

FailureRecordedOnce ==
    IF HasWorkflow(knowledge, run_site, run_task)
    THEN /\ HasWorkflow(knowledge', run_site, run_task)
         /\ WorkflowOf(knowledge', run_site, run_task).fail_count =
              WorkflowOf(knowledge, run_site, run_task).fail_count + 1
         /\ WorkflowOf(knowledge', run_site, run_task).success_count =
              WorkflowOf(knowledge, run_site, run_task).success_count
         /\ WorkflowOf(knowledge', run_site, run_task).confidence =
              Max(MIN_CONFIDENCE,
                  WorkflowOf(knowledge, run_site, run_task).confidence - FAILURE_DELTA)
         /\ WorkflowOf(knowledge', run_site, run_task).steps =
              WorkflowOf(knowledge, run_site, run_task).steps
    ELSE knowledge'.sites = knowledge.sites

C14_WorkflowFailureFrame ==
    [][ (last'.op = "record_workflow_failure" /\ ops' # ops) =>
          /\ DOMAIN knowledge'.sites = DOMAIN knowledge.sites
          /\ Workflows(knowledge') = Workflows(knowledge)
          /\ \A st \in Workflows(knowledge) :
                IF last'.hit /\ st = <<last'.site, last'.task>>
                THEN /\ WorkflowOf(knowledge', st[1], st[2]).confidence =
                          Max(MIN_CONFIDENCE,
                              WorkflowOf(knowledge, st[1], st[2]).confidence - FAILURE_DELTA)
                     /\ WorkflowOf(knowledge', st[1], st[2]).confidence <=
                          WorkflowOf(knowledge, st[1], st[2]).confidence
                     /\ WorkflowOf(knowledge', st[1], st[2]).fail_count =
                          WorkflowOf(knowledge, st[1], st[2]).fail_count + 1
                     /\ [ WorkflowOf(knowledge', st[1], st[2]) EXCEPT
                            !.confidence = WorkflowOf(knowledge, st[1], st[2]).confidence,
                            !.fail_count = WorkflowOf(knowledge, st[1], st[2]).fail_count ]
                          = WorkflowOf(knowledge, st[1], st[2])
                ELSE WorkflowOf(knowledge', st[1], st[2]) = WorkflowOf(knowledge, st[1], st[2])
          /\ [ knowledge' EXCEPT !.sites = knowledge.sites ] = knowledge
          /\ ~last'.hit => (knowledge' = knowledge /\ dirty' = dirty) ]_vars

\* a workflow with two steps has failed and kept them
C14_Witness ==
    /\ last.op = "record_workflow_failure"
    /\ last.hit
    /\ WorkflowOf(knowledge, last.site, last.task).steps = <<StepA, StepB>>
    /\ WorkflowOf(knowledge, last.site, last.task).fail_count = 2
    /\ WorkflowOf(knowledge, last.site, last.task).confidence = NEW_WORKFLOW_CONFIDENCE - 2 * FAILURE_DELTA


(* Properties of _send_cdp *)

\* C15: every command gets an id strictly greater than every id used before, also
\* across reconnects, and a response that is returned carries the id of the command
\* sent by the same call: other messages are dropped, never returned.
C15_ResponseMatchesCommand ==
    /\ \A i, j \in 1..Len(wire.used) : i < j => wire.used[i] < wire.used[j]
    /\ wire.ret.kind = "response" =>
          /\ wire.ret.id = wire.sent_id
          /\ wire.sent_id = wire.used[Len(wire.used)]
    /\ \A i \in 1..Len(wire.discarded) :
          ~wire.discarded[i].has_id \/ wire.discarded[i].id # wire.sent_id

\* the late response to a command that timed out was dropped, then an event,
\* before the response to the current command was returned
C15_Witness ==
    /\ wire.ret.kind = "response"
    /\ Len(wire.discarded) = 2
    /\ wire.discarded[1].has_id
    /\ wire.discarded[1].id < wire.sent_id
    /\ ~wire.discarded[2].has_id

\* C16: _send_cdp always returns within a per-command timeout, also when the socket
\* keeps delivering messages that do not match the outstanding id.
C16_WaitIsBounded ==
    wire.elapsed <= SOCKET_TIMEOUT


(* Properties of the browser tools *)

\* C17: a tool whose command hit a transport error returns success = false, never
\* success = true.
C17_TransportErrorIsSurfaced ==
    tool_call.transport => ~tool_call.success

\* the requested URL, a URL without scheme being prefixed with https://
Https(u) == IF u.scheme = "" THEN [u EXCEPT !.scheme = "https://"] ELSE u

\* C18: navigate(url) always issues a page-navigation command for the requested
\* URL on the active target (unless no socket could be opened), and when it reports
\* success the active target is at the requested URL.
C18_NavigateReachesUrl ==
    tool_call.tool = "navigate" =>
        /\ tool_call.error \notin {"Could not connect", "Not connected", "exception"} =>
              tool_call.sent = << Command("Page.navigate", Https(tool_call.url)) >>
        /\ tool_call.success => cdp.target_url = Https(tool_call.url)

(* Properties of the ACT and RECORD steps of AgenticLoop *)

\* C19: a tool error never escapes as an exception: a tool that fails yields a
\* result with success = false, which the run appends to its history and to the
\* LoopDetector as a failed action before it continues with the next iteration.
C19_ToolFailureIsRecorded ==
    [][ (tool_execs' = tool_execs + 1 /\ pc = "RUNNING") =>
          /\ Len(history') = Len(history) + 1
          /\ ~history'[Len(history')].result.success =>
                /\ action_history' # <<>>
                /\ EndsWithFalse(action_history'[Len(action_history')])
                /\ pc' = "RUNNING"
                /\ step' = step + 1 ]_vars

\* the oracle's answer of this step names a tool that is not in the registry
UnknownToolStep ==
    /\ oracle_calls' = oracle_calls + 1
    /\ response'.kind = "object"
    /\ ~response'.done
    /\ ~response'.give_up
    /\ response'.tool \notin ToolNames

\* no tool is executed, the step is recorded as failed and consumes one step
UnknownToolRecorded ==
    /\ tool_execs' = tool_execs
    /\ step' = step + 1
    /\ pc' = "RUNNING"
    /\ history' = Append(history, [step   |-> step + 1,
                                   action |-> response',
                                   result |-> [success |-> FALSE,
                                               error   |-> "Unknown tool"]])
    /\ action_history' =
         Append(action_history, <<response'.tool, response'.params, "False">>)

\* the signatures before this step that make it the LOOP_THRESHOLD-th of a row
Preceding == SubSeq(action_history, Len(action_history) - LOOP_THRESHOLD + 2,
                    Len(action_history))

C21_StrictlySequential ==
    [][ /\ oracle_calls' \in {oracle_calls, oracle_calls + 1}
        /\ tool_execs' \in {tool_execs, tool_execs + 1}
        /\ (pc = "RUNNING" /\ step' = step + 1) => oracle_calls' = oracle_calls + 1
        /\ tool_execs' = tool_execs + 1 =>
              /\ oracle_calls' = oracle_calls + 1
              /\ Len(history) = step
              /\ Len(action_history) = step
              /\ settled = tool_execs
              /\ Len(history') = step + 1
              /\ Len(action_history') = step + 1 ]_vars

\* two tools and an unknown tool were handled one after the other
C21_Witness ==
    /\ pc = "RUNNING"
    /\ tool_execs = 2
    /\ settled = 2
    /\ step = 3
    /\ Len(history) = 3

\* the signatures of the actions recorded in the history of the run
SignaturesOf(h) ==
    [i \in 1..Len(h) |-> <<h[i].action.tool, h[i].action.params, Str(h[i].result.success)>>]

\* C22: the LoopDetector is reset once per run, at its start: during the run its
\* history is exactly the sequence of the signatures of the actions of the earlier
\* iterations of this run, nothing carried over and nothing cleared.
C22_DetectorHoldsThisRun ==
    pc # "idle" =>
        /\ action_history = SignaturesOf(history)
        /\ pc = "RUNNING" => Len(action_history) = step

\* three actions of this run are in the LoopDetector, and nothing else
C22_Witness ==
    /\ pc = "RUNNING"
    /\ step = LOOP_THRESHOLD
    /\ Len(action_history) = LOOP_THRESHOLD
    /\ action_history[1] # action_history[LOOP_THRESHOLD]

\* C23: an oracle call carries a loop warning if and only if is_looping holds for
\* the actions recorded so far in the run; after 3 identical failing actions the
\* next oracle call carries it.
C23_WarningIffLooping ==
    [][ oracle_calls' = oracle_calls + 1 =>
          /\ warned' <=> is_looping(SignaturesOf(history))
          /\ ( /\ Len(history) >= LOOP_THRESHOLD
               /\ \A i \in (Len(history) - LOOP_THRESHOLD + 1)..Len(history) :
                     /\ ~history[i].result.success
                     /\ history[i].action = history[Len(history)].action )
             => warned' ]_vars

\* the fourth oracle call of a run carried the warning, the third did not
C23_Witness ==
    /\ warned
    /\ oracle_calls = LOOP_THRESHOLD + 1
    /\ pc = "RUNNING"

----------------------------------------------------------------------------
(* Properties of the lookup, SpecLookup *)

\* the site without a leading "www."
StripLeadingWww(site) ==
    IF site # <<>> /\ Head(site) = WWW THEN Tail(site) ELSE site

Aliasing(k, site, task) ==
    { key \in DOMAIN k.sites :
        /\ \E i \in 1..Len(AltDomains(k.sites[key])) : AltDomains(k.sites[key])[i] = site
        /\ task \in DOMAIN k.sites[key].workflows }

\* C24: get_site_workflow(site, task) ignores a leading "www." of the site,
\* returns the workflow stored for the task under exactly that site when there
\* is one, otherwise the workflow for the task of a site that lists the
\* requested site in alt_domains, otherwise nothing; the store, its dirty flag
\* and its file are left as they were.
C24_LookupByExactSiteThenAlias ==
    [][ (last'.op = "get_site_workflow" /\ ops' # ops) =>
          LET site  == StripLeadingWww(last'.site)
              task  == last'.task
              exact == /\ site \in DOMAIN knowledge.sites
                       /\ task \in DOMAIN knowledge.sites[site].workflows
          IN  /\ knowledge' = knowledge /\ dirty' = dirty /\ file' = file
              /\ exact => last'.arg = << knowledge.sites[site].workflows[task] >>
              /\ (~exact /\ Aliasing(knowledge, site, task) # {}) =>
                    \E key \in Aliasing(knowledge, site, task) :
                        last'.arg = << knowledge.sites[key].workflows[task] >>
              /\ (~exact /\ Aliasing(knowledge, site, task) = {}) =>
                    last'.arg = <<>> ]_vars


----------------------------------------------------------------------------
(* Properties of the contacts, SpecContacts *)

\* the platform identifiers a lookup returns, without the "name" entry
InfoOf(found) ==
    IF found = <<>>
    THEN EmptyDict
    ELSE [ x \in (DOMAIN found[1]) \ {"name"} |-> found[1][x] ]

OneEntryPerName(k) ==
    \A k1, k2 \in DOMAIN k.contacts : Lower(k1) = Lower(k2) => k1 = k2

----------------------------------------------------------------------------
(* Properties of learn_task, SpecLearner *)

\* C26: when a session of learn_task was completed with done and has returned
\* its agent, get_site_workflow(site, task) on the knowledge store returns a
\* workflow whose steps are the recorded steps of the session.
C26_DoneStoresWorkflow ==
    (learner.pc = "returned" /\ learner.ret # <<>>) =>
        /\ get_site_workflow(knowledge, learner.site, learner.task) # <<>>
        /\ get_site_workflow(knowledge, learner.site, learner.task)[1].steps = learner.steps

\* the forms listed for _parse_instruction: click X, type X, type X in Y,
\* press K, wait N seconds, scroll down, and go to U
Grammar(instruction) ==
    LET lower == LowerWords(instruction)
    IN  /\ instruction # <<>>
        /\ \/ lower[1] \in {"click", "type", "enter", "press"} /\ Len(lower) >= 2
           \/ lower[1] \in {"wait", "scroll"}
           \/ Len(lower) >= 3 /\ lower[1] \in {"go", "navigate"} /\ lower[2] = "to"

SessionCommand(user_input) ==
    \/ user_input = <<>>
    \/ \E w \in {"done", "cancel", "back", "undo"} : IsCommand(user_input, w)

\* C29: the step list of a session holds, in order, the instructions that were
\* parsed and executed successfully, less those removed by undo: every step in
\* it was executed with success; an instruction outside the grammar calls no
\* tool, records nothing and is followed by the next question; an instruction
\* of the grammar is executed once and recorded exactly when that succeeded;
\* cancel and end of input return nothing and write no agent file.
C29_StepsAreTheInstructionsDone ==
    [][ /\ \A k \in 1..Len(learner'.steps) :
              \E c \in 1..Len(learner'.calls) :
                  /\ learner'.calls[c].success
                  /\ learner'.calls[c].step.action = learner'.steps[k].action
        /\ (learner.pc = "asking" /\ learner'.pc = "returned") =>
              /\ learner'.ret = <<>>
              /\ agents' = agents
        /\ (learner.pc = "asking" /\ learner'.step_num # learner.step_num
               /\ learner'.pc # "returned") =>
              LET user_input == learner'.user_input
              IN  IF SessionCommand(user_input)
                  THEN /\ learner'.calls = learner.calls
                       /\ Len(learner'.steps) <= Len(learner.steps)
                       /\ learner'.steps = SubSeq(learner.steps, 1, Len(learner'.steps))
                  ELSE IF ~Grammar(user_input)
                  THEN /\ learner'.calls = learner.calls
                       /\ learner'.steps = learner.steps
                       /\ learner'.pc = "asking"
                  ELSE /\ learner'.pc = "asking"
                       /\ Len(learner'.calls) = Len(learner.calls) + 1
                       /\ IF learner'.calls[Len(learner'.calls)].success
                          THEN /\ Len(learner'.steps) = Len(learner.steps) + 1
                               /\ SubSeq(learner'.steps, 1, Len(learner.steps)) = learner.steps
                               /\ learner'.steps[Len(learner'.steps)].user_instruction = user_input
                          ELSE learner'.steps = learner.steps ]_vars


----------------------------------------------------------------------------
(* Properties of execute_agent, SpecExecute *)

StoredSteps == agents[execution.name].steps

HasHistory == "history" \in DOMAIN execution.ret

\* step j was executed and succeeded
StepSucceeded(j) ==
    /\ HasHistory
    /\ j <= Len(execution.ret.history)
    /\ execution.ret.history[j].success

\* the steps that were executed are the first steps of the agent, in their
\* order, each with its parameters filled in, and each but the last succeeded
RanInOrder ==
    /\ Len(execution.ret.history) <= Len(StoredSteps)
    /\ \A j \in 1..Len(execution.ret.history) :
          /\ execution.ret.history[j].step = j
          /\ execution.ret.history[j].action.action = StoredSteps[j].action
          /\ execution.ret.history[j].success <=>
                (StoredSteps[j].action = "wait" \/ execution.outcomes[j])
          /\ j < Len(execution.ret.history) => execution.ret.history[j].success

\* a failure at step i reports i - 1 completed steps and nothing was executed after i
StoppedAtFailure ==
    ~execution.ret.success =>
        /\ execution.ret.history # <<>>
        /\ ~execution.ret.history[Len(execution.ret.history)].success
        /\ execution.ret.completed_steps = Len(execution.ret.history) - 1

----------------------------------------------------------------------------
(* Properties of scroll_find, SpecTools *)

ScrollFindReturned == tool_call.tool = "scroll_find" /\ "page" \in DOMAIN tool_call

\* the scroll commands of the call
ScrollsSent ==
    Len(SelectSeq(tool_call.sent, LAMBDA c : c.method = "Input.dispatchMouseEvent"))

\* C27: scroll_find(text, max_scrolls) sends at most max_scrolls scrolls; it
\* returns success, with the number of scrolls it performed, whenever the text is
\* on the page after k scrolls for some k from 0 to max_scrolls, and returns
\* failure only when the text is still absent after the last scroll.
C27_ScrollFindWithinBound ==
    ScrollFindReturned =>
        /\ ScrollsSent <= tool_call.page.max_scrolls
        /\ tool_call.success => tool_call.scrolls = ScrollsSent
        /\ (~tool_call.transport /\ tool_call.page.appears_after <= tool_call.page.max_scrolls) =>
              /\ tool_call.success
              /\ tool_call.scrolls = tool_call.page.appears_after
        /\ ~tool_call.success => tool_call.page.scrolled < tool_call.page.appears_after


----------------------------------------------------------------------------
(* Properties of the rendering of a learned workflow, SpecAgentic *)

\* C28: once a run has ended DONE and record_success has created the workflow
\* of (site, task) from its actions, the workflow that get_site_workflow hands
\* to the next run is rendered with one line per step, and the line of each
\* step names the tool that was executed and the target, text or URL it was
\* given.
C28_LearnedWorkflowIsRendered ==
    ( /\ pc = "DONE"
      /\ run_site # <<>>
      /\ ~HasWorkflow(at_start, run_site, run_task)
      /\ get_site_workflow(knowledge, run_site, run_task) # <<>> ) =>
        LET workflow == get_site_workflow(knowledge, run_site, run_task)[1]
            executed == ExecutedOk(history)
        IN  /\ Len(workflow_text(workflow)) = Len(executed)
            /\ Len(prompt_labels(workflow)) = Len(executed)
            /\ \A i \in 1..Len(executed) :
                  /\ workflow_text(workflow)[i].action = Upper(executed[i].tool)
                  /\ workflow_text(workflow)[i].target = executed[i].params.value
                  /\ prompt_labels(workflow)[i] # "?"


----------------------------------------------------------------------------
(* Properties of the updates of a workflow reached through an alias, SpecAlias *)

\* C31: record_workflow_failure(site, task) lowers the confidence of the workflow
\* that get_site_workflow(site, task) returns, and record_success(site, task)
\* counts a success on that workflow without creating a second one, also when
\* the workflow is found through alt_domains.
C31_UpdatesReachTheLookedUpWorkflow ==
    [][ ( /\ ops' # ops
          /\ last'.op \in {"record_workflow_failure", "record_success"}
          /\ get_site_workflow(knowledge, last'.site, last'.task) # <<>> ) =>
          LET before == get_site_workflow(knowledge, last'.site, last'.task)[1]
              after  == get_site_workflow(knowledge', last'.site, last'.task)
          IN  /\ after # <<>>
              /\ after[1].steps = before.steps
              /\ Cardinality(Workflows(knowledge')) = Cardinality(Workflows(knowledge))
              /\ last'.op = "record_workflow_failure" =>
                    /\ after[1].confidence = Max(MIN_CONFIDENCE, before.confidence - FAILURE_DELTA)
                    /\ after[1].fail_count = before.fail_count + 1
              /\ last'.op = "record_success" =>
                    after[1].success_count = before.success_count + 1 ]_vars


----------------------------------------------------------------------------
(* Properties of the sockets of BrowserCDP *)

\* C32: at most one socket is open at any time, and it is the one self.ws
\* refers to: every socket opened before it has been closed.
C32_AtMostOneOpenSocket ==
    /\ Cardinality(cdp.open) <= 1
    /\ cdp.open \subseteq {cdp.ws}


----------------------------------------------------------------------------
(* Properties of the dirty flag, SpecPersist *)

\* what the knowledge file holds: a missing or unreadable file holds nothing
FileContent ==
    IF file.status = "valid" THEN Parse(file.doc) ELSE _get_default_knowledge(0)

\* C33: whenever the dirty flag is false, the knowledge file holds the same
\* workflows, failure records and contacts as the store in memory; a save whose
\* write failed does not leave the store marked clean.
C33_CleanMeansPersisted ==
    ~dirty => SameContent(FileContent, knowledge)


----------------------------------------------------------------------------
(* Properties of the connection after a transport error, SpecTools *)

\* C34: a tool call whose command met a transport error on the socket leaves
\* is_connected() false, and while is_connected() is false no tool sends a
\* command unless a new socket is opened first: it returns Not connected.
C34_TransportErrorDisconnects ==
    [][ /\ (cdp'.msg_id # cdp.msg_id /\ tool_call'.transport) =>
              ~(cdp'.connected /\ cdp'.ws # 0)
        /\ (~is_connected /\ cdp'.created = cdp.created /\ tool_call' # tool_call) =>
              /\ cdp'.msg_id = cdp.msg_id
              /\ tool_call'.sent = <<>>
              /\ ~tool_call'.success ]_vars


----------------------------------------------------------------------------
(* Properties of the counters of a workflow, Spec *)

\* was this step the call op for the workflow st = <<site, task>>?
Applied(op, st) ==
    /\ ops' # ops
    /\ last'.op = op
    /\ last'.site = st[1]
    /\ last'.task = st[2]

\* C35: a workflow is created by a record_success call with success_count 1 and
\* fail_count 0; from then on every record_success for its (site, task) adds
\* one to success_count, every record_workflow_failure adds one to fail_count,
\* and nothing else changes either counter, so that their sum is the number of
\* such calls since the creation, success_count is at least 1 and no counter
\* decreases.
C35_CountersCountCalls ==
    [][ /\ \A st \in Workflows(knowledge') :
              WorkflowOf(knowledge', st[1], st[2]).success_count >= 1
        /\ \A st \in Workflows(knowledge) :
              /\ st \in Workflows(knowledge')
              /\ WorkflowOf(knowledge', st[1], st[2]).success_count =
                    WorkflowOf(knowledge, st[1], st[2]).success_count
                    + (IF Applied("record_success", st) THEN 1 ELSE 0)
              /\ WorkflowOf(knowledge', st[1], st[2]).fail_count =
                    WorkflowOf(knowledge, st[1], st[2]).fail_count
                    + (IF Applied("record_workflow_failure", st) THEN 1 ELSE 0)
        /\ \A st \in Workflows(knowledge') \ Workflows(knowledge) :
              /\ Applied("record_success", st)
              /\ WorkflowOf(knowledge', st[1], st[2]).success_count = 1
              /\ WorkflowOf(knowledge', st[1], st[2]).fail_count = 0 ]_vars

\* five calls for one workflow since its creation: three successes, two failures,
\* beside a workflow of another site
C35_Witness ==
    /\ ops = 6
    /\ HasWorkflow(knowledge, <<"instagram.com">>, "send_dm")
    /\ HasWorkflow(knowledge, <<"twitter.com">>, "send_dm")
    /\ WorkflowOf(knowledge, <<"instagram.com">>, "send_dm").success_count = 3
    /\ WorkflowOf(knowledge, <<"instagram.com">>, "send_dm").fail_count = 2
    /\ WorkflowOf(knowledge, <<"twitter.com">>, "send_dm").success_count = 1


----------------------------------------------------------------------------
(* Properties of is_looping after a success, SpecLoopDetector *)

\* C36: is_looping() is false whenever the action recorded last succeeded,
\* whatever was recorded before it.
C36_SuccessClearsLoop ==
    (action_history # <<>> /\ ~EndsWithFalse(action_history[Len(action_history)])) =>
        ~is_looping(action_history)

\* a success recorded after a loop of three identical failures
C36_Witness ==
    /\ Len(action_history) = LOOP_THRESHOLD + 1
    /\ is_looping(SubSeq(action_history, 1, LOOP_THRESHOLD))
    /\ ~EndsWithFalse(action_history[LOOP_THRESHOLD + 1])
    /\ action_history[LOOP_THRESHOLD + 1][1] = action_history[1][1]


====
